---------------------------- MODULE Spec2Model ----------------------------
(***************************************************************************)
(* A model of the mmrapi event receiver (srv/server.go) and of the SQLite  *)
(* schema and queries it runs (db/migrations, db/queries).                 *)
(*                                                                         *)
(* Every HTTP handler is a process that runs in a slot; one step of a      *)
(* handler is one database statement or one file-system call, which is     *)
(* where net/http handlers running concurrently can interleave.            *)
(* Text is modelled as a sequence of one-character strings, so that        *)
(* formatting, sanitising and prefix tests are computed, not assumed.      *)
(***************************************************************************)
EXTENDS Integers, Sequences, FiniteSets, TLC

(***************************************************************************)
(* Text                                                                    *)
(***************************************************************************)
UpperChars == <<"A","B","C","D","E","F","G","H","I","J","K","L","M",
                "N","O","P","Q","R","S","T","U","V","W","X","Y","Z">>
LowerChars == <<"a","b","c","d","e","f","g","h","i","j","k","l","m",
                "n","o","p","q","r","s","t","u","v","w","x","y","z">>
DigitChars == <<"0","1","2","3","4","5","6","7","8","9">>

Range(s) == {s[i] : i \in DOMAIN s}

\* a text left as it is
SameText(s) == s

\* strings.ToLower on one character / on a text
LowerChar(c) ==
    IF c \in Range(UpperChars)
    THEN LowerChars[CHOOSE i \in DOMAIN UpperChars : UpperChars[i] = c]
    ELSE c
ToLower(s) == [i \in DOMAIN s |-> LowerChar(s[i])]

\* strings.HasSuffix / strings.HasPrefix
HasSuffix(s, suf) ==
    /\ Len(suf) <= Len(s)
    /\ SubSeq(s, Len(s) - Len(suf) + 1, Len(s)) = suf
HasPrefix(s, pre) ==
    /\ Len(pre) <= Len(s)
    /\ SubSeq(s, 1, Len(pre)) = pre

\* fmt.Sprintf("%d", n) for n >= 0
RECURSIVE Itoa(_)
Itoa(n) == IF n < 10 THEN <<DigitChars[n + 1]>>
           ELSE Itoa(n \div 10) \o <<DigitChars[(n % 10) + 1]>>

\* the character class [a-zA-Z0-9._-] of sanitizeFilename
SafeChars == Range(UpperChars) \cup Range(LowerChars) \cup Range(DigitChars)
             \cup {".", "_", "-"}

\* sanitizeFilename: every character outside the class becomes "_"
sanitizeFilename(name) ==
    [i \in DOMAIN name |-> IF name[i] \in SafeChars THEN name[i] ELSE "_"]

\* the last non-empty value, "" when there is none
RECURSIVE lastNonEmpty(_)
lastNonEmpty(vals) ==
    IF vals = <<>> THEN <<>>
    ELSE IF vals[Len(vals)] # <<>> THEN vals[Len(vals)]
    ELSE lastNonEmpty(SubSeq(vals, 1, Len(vals) - 1))

\* coalesce: the first non-empty value, "" when there is none
RECURSIVE coalesce(_)
coalesce(vals) ==
    IF vals = <<>> THEN <<>>
    ELSE IF Head(vals) # <<>> THEN Head(vals)
    ELSE coalesce(Tail(vals))

\* a nullable column or pointer: <<>> is NULL/nil, <<v>> holds v
None == <<>>
Some(v) == <<v>>
ptrIfNotEmpty(s) == IF s = <<>> THEN None ELSE Some(s)

\* strconv.ParseFloat on a text of signs, digits, dots and other characters
\* (no exponent, hexadecimal, inf or nan form is among the texts of a run):
\* an optional sign, then digits with at most one dot and at least one digit;
\* the value is kept as sign, digits and the number of digits after the dot
ParseFloat(s) ==
    LET signed == s # <<>> /\ Head(s) \in {"+", "-"}
        body == IF signed THEN Tail(s) ELSE s
        dots == {i \in DOMAIN body : body[i] = "."}
        digits == {i \in DOMAIN body : body[i] \in Range(DigitChars)}
        Pick(k) == body[IF dots # {} /\ k >= (CHOOSE d \in dots : TRUE) THEN k + 1 ELSE k]
    IN  IF /\ Cardinality(dots) <= 1
           /\ digits # {}
           /\ dots \cup digits = DOMAIN body
        THEN Some([neg |-> signed /\ Head(s) = "-",
                   digits |-> [k \in 1..Cardinality(digits) |-> Pick(k)],
                   scale |-> IF dots = {} THEN 0
                             ELSE Len(body) - (CHOOSE d \in dots : TRUE)])
        ELSE None

\* fmt.Sprintf("auto-%d", time.Now().UnixNano()) for a clock reading
AutoCarID(unixNano) == <<"a","u","t","o","-">> \o Itoa(unixNano)

ExtJson == <<".","j","s","o","n">>
ExtJpg  == <<".","j","p","g">>
ExtJpeg == <<".","j","p","e","g">>
ExtPng  == <<".","p","n","g">>
Unknown == <<"u","n","k","n","o","w","n">>

\* safePlate: sanitizeFilename(plate), "unknown" when that is empty
SafePlate(plate) ==
    IF sanitizeFilename(plate) = <<>> THEN Unknown ELSE sanitizeFilename(plate)

\* the JSON file's name on disk, from the event id
JsonDiskName(eventID, jsonFilename, plate) ==
    IF jsonFilename = <<>>
    THEN Itoa(eventID) \o <<"_">> \o SafePlate(plate) \o ExtJson
    ELSE Itoa(eventID) \o <<"_">> \o sanitizeFilename(jsonFilename)

\* a type test that looks for the vehicle words first
VehicleFirstType(filename) ==
    LET lowerName == ToLower(filename)
        Contains(sub) == \E k \in 1..Len(lowerName) :
                            HasPrefix(SubSeq(lowerName, k, Len(lowerName)), sub)
    IN  IF Contains(<<"r","o","i">>) \/ Contains(<<"v","e","h","i","c","l","e">>)
        THEN <<"v","e","h","i","c","l","e">>
        ELSE IF Contains(<<"l","p","u","p">>) \/ Contains(<<"p","l","a","t","e">>)
        THEN <<"p","l","a","t","e">>
        ELSE <<"u","p","l","o","a","d","e","d">>

\* image type of an uploaded file, from its name
UploadedImageType(filename) ==
    LET lowerName == ToLower(filename)
        Contains(sub) == \E k \in 1..Len(lowerName) :
                            HasPrefix(SubSeq(lowerName, k, Len(lowerName)), sub)
    IN  IF Contains(<<"l","p","u","p">>) \/ Contains(<<"p","l","a","t","e">>)
        THEN <<"p","l","a","t","e">>
        ELSE IF Contains(<<"r","o","i">>) \/ Contains(<<"v","e","h","i","c","l","e">>)
        THEN <<"v","e","h","i","c","l","e">>
        ELSE <<"u","p","l","o","a","d","e","d">>

\* an uploaded image's name on disk, from the id insertImageWithID returned
UploadedDiskName(imgID, filename, plate, i) ==
    LET diskFilename == Itoa(imgID) \o <<"_">> \o sanitizeFilename(filename)
    IN  IF diskFilename = Itoa(imgID) \o <<"_">>
        THEN Itoa(imgID) \o <<"_">> \o SafePlate(plate) \o <<"_">> \o Itoa(i) \o ExtJpg
        ELSE diskFilename

\* an embedded image's type, extension, row filename and name on disk
EmbeddedType(img) ==
    IF img.ImageType = <<>> THEN <<"e","m","b","e","d","d","e","d">> ELSE img.ImageType
EmbeddedExt(img) ==
    IF img.ImageFormat = <<>> THEN <<"j","p","g">> ELSE img.ImageFormat
EmbeddedFilename(img, i) ==
    EmbeddedType(img) \o <<"_">> \o Itoa(i) \o <<".">> \o EmbeddedExt(img)
EmbeddedDiskName(imgID, plate, imgType, ext) ==
    Itoa(imgID) \o <<"_">> \o SafePlate(plate) \o <<"_">> \o imgType \o <<".">> \o ext

\* filepath.Join(s.DataDir, dir, name)
Path(dir, name) == [dir |-> dir, name |-> name]

(***************************************************************************)
(* Requests                                                                *)
(***************************************************************************)
\* a request body or form value: no bytes at all (nil), zero bytes, bytes
\* that are not JSON, or a JSON document
NilPayload ==
    [kind |-> "nil", CarID |-> <<>>, CarId |-> <<>>, CarId2 |-> <<>>,
     PlateUTF8 |-> <<>>, PlateText |-> <<>>, PlateConfidence |-> <<>>,
     CarState |-> <<>>, CarState2 |-> <<>>, VehicleInfo |-> None, Geotag |-> None,
     ImageArray |-> <<>>]
EmptyPayload == [NilPayload EXCEPT !.kind = "empty"]
InvalidPayload == [NilPayload EXCEPT !.kind = "invalid"]
Doc(plateUTF8, plateText, imageArray) ==
    [NilPayload EXCEPT !.kind = "json", !.PlateUTF8 = plateUTF8,
                       !.PlateText = plateText, !.ImageArray = imageArray]

\* the VehicleInfo group of a payload with its two confidence strings
VehicleInfo(confidenceMMR, confidenceColor) ==
    Some([ConfidenceMMR |-> confidenceMMR, ConfidenceColor |-> confidenceColor])

\* the geotag object of a payload: each of its keys lat and lon holds a
\* number or is left out (None)
Geotag(lat, lon) == Some([lat |-> lat, lon |-> lon])

\* json.Unmarshal into the Geotag pointer: nil when the document has no
\* geotag, else a struct whose Lat and Lon are the numbers sent, 0 for a
\* key that is left out
UnmarshalGeotag(geotag) ==
    IF geotag = None THEN None
    ELSE Some([Lat |-> IF geotag[1].lat = None THEN 0 ELSE geotag[1].lat[1],
               Lon |-> IF geotag[1].lon = None THEN 0 ELSE geotag[1].lon[1]])

\* a decoder that takes every text
AnyBase64(b) == TRUE

\* base64.StdEncoding.DecodeString on the tokens a BinaryImage takes here
Base64Valid(b) == b = "b64"

\* one file part: its name and what it holds
FilePart(filename, data) == [Filename |-> filename, Data |-> data]
ImageBytes == [NilPayload EXCEPT !.kind = "image"]

\* the multipart file loop: a part whose lowercased name ends in .json is the
\* payload (the last one wins) and keeps its name; one ending in .jpg, .jpeg
\* or .png is an uploaded image; any other part is dropped
RECURSIVE ClassifyFiles(_, _)
ClassifyFiles(files, acc) ==
    IF files = <<>> THEN acc
    ELSE LET f == Head(files)
             lowerName == ToLower(f.Filename)
         IN  IF HasSuffix(lowerName, ExtJson)
             THEN ClassifyFiles(Tail(files),
                     [acc EXCEPT !.rawJSON = f.Data, !.jsonFilename = f.Filename])
             ELSE IF \/ HasSuffix(lowerName, ExtJpg)
                     \/ HasSuffix(lowerName, ExtJpeg)
                     \/ HasSuffix(lowerName, ExtPng)
             THEN ClassifyFiles(Tail(files),
                     [acc EXCEPT !.uploadedImages = Append(@, f.Filename)])
             ELSE ClassifyFiles(Tail(files), acc)

\* what HandleAPI has in rawJSON, jsonFilename and uploadedImages when it
\* reaches the length test
ReadRequest(req) ==
    IF req.multipart
    THEN LET c == ClassifyFiles(req.files,
                     [rawJSON |-> NilPayload, jsonFilename |-> <<>>,
                      uploadedImages |-> <<>>])
         IN  IF c.rawJSON.kind # "nil" THEN c
             ELSE IF req.json.kind \notin {"nil", "empty"}
             THEN [c EXCEPT !.rawJSON = req.json]
             ELSE IF req.data.kind \notin {"nil", "empty"}
             THEN [c EXCEPT !.rawJSON = req.data]
             ELSE c
    ELSE [rawJSON |-> req.body, jsonFilename |-> <<>>, uploadedImages |-> <<>>]

\* a handler without the tests on the payload
NoRequestError(req) == 0

\* the status HandleAPI answers before it touches the database: 400 for a
\* multipart body that does not parse, no payload bytes, or bytes that are
\* not JSON; 0 when the request goes on to the insert
RequestError(req) ==
    IF req.multipart /\ req.malformed THEN 400
    ELSE IF ReadRequest(req).rawJSON.kind \in {"nil", "empty"} THEN 400
    ELSE IF ReadRequest(req).rawJSON.kind # "json" THEN 400
    ELSE 0

\* unixNano is what time.Now().UnixNano() gives while the request is handled
MultipartRequest(files, json, data) ==
    [multipart |-> TRUE, malformed |-> FALSE, files |-> files,
     json |-> json, data |-> data, body |-> NilPayload, unixNano |-> 1]
JsonRequest(body) ==
    [multipart |-> FALSE, malformed |-> FALSE, files |-> <<>>,
     json |-> NilPayload, data |-> NilPayload, body |-> body, unixNano |-> 1]
NoRequest == [JsonRequest(NilPayload) EXCEPT !.unixNano = 0]

\* the normalised car id: the first synonym that is not empty, else one
\* made from the clock
NormalCarID(event, unixNano) ==
    IF coalesce(<<event.CarID, event.CarId, event.CarId2>>) = <<>>
    THEN AutoCarID(unixNano)
    ELSE coalesce(<<event.CarID, event.CarId, event.CarId2>>)

\* plateConfidence: parsed when the text is not empty and parses, else nil
NormalPlateConfidence(event) ==
    IF event.PlateConfidence # <<>> THEN ParseFloat(event.PlateConfidence) ELSE None

\* a longitude that is nil when the document's geotag has no lon key
GeoLonIfSent(event) ==
    IF event.Geotag # None THEN event.Geotag[1].lon ELSE None

\* geoLat and geoLon: pointers to the fields of the Geotag struct, nil when
\* there is no struct
NormalGeoLat(event) ==
    IF UnmarshalGeotag(event.Geotag) # None
    THEN Some(UnmarshalGeotag(event.Geotag)[1].Lat) ELSE None
NormalGeoLon(event) ==
    IF UnmarshalGeotag(event.Geotag) # None
    THEN Some(UnmarshalGeotag(event.Geotag)[1].Lon) ELSE None

\* confMMR and confColor: the texts of VehicleInfo as they are, nil when
\* empty or when the group is missing
NormalConfMMR(event) ==
    IF event.VehicleInfo # None THEN ptrIfNotEmpty(event.VehicleInfo[1].ConfidenceMMR)
    ELSE None
NormalConfColor(event) ==
    IF event.VehicleInfo # None THEN ptrIfNotEmpty(event.VehicleInfo[1].ConfidenceColor)
    ELSE None

(***************************************************************************)
(* The database: tables as functions from the row id, SQL NULL as Null     *)
(***************************************************************************)
Null == 0

Tables == {"events", "images", "archives", "compare_results"}

\* the four values HandleCompareToggle accepts for field
validFields == {"plate", "maker", "model", "color"}

\* rows of a table without the rows whose id is in gone
Without(tbl, gone) == [id \in (DOMAIN tbl) \ gone |-> tbl[id]]

\* the ids of a set of integers as an ascending sequence
RECURSIVE Ascending(_)
Ascending(S) ==
    IF S = {} THEN <<>>
    ELSE LET m == CHOOSE x \in S : \A y \in S : x <= y
         IN  <<m>> \o Ascending(S \ {m})

\* WHERE archive_id IS NULL / WHERE archive_id = ?
CurrentEventIds(ev) == {e \in DOMAIN ev : ev[e].archive_id = Null}
ArchivedEventIds(ev, aid) == {e \in DOMAIN ev : ev[e].archive_id = aid}

\* CountEvents counts the events of every archive as well
CountEvents(ev) == Cardinality(DOMAIN ev)

\* CountCurrentEvents
CountCurrentEvents(ev) == Cardinality(CurrentEventIds(ev))

\* the bulk update without its WHERE clause
ArchiveEveryEvent(ev, aid) == [e \in DOMAIN ev |-> [ev[e] EXCEPT !.archive_id = aid]]

\* GetEventByID: the row, or none (sql.ErrNoRows)
GetEventByID(ev, id) == IF id \in DOMAIN ev THEN Some(ev[id]) ELSE None

\* ArchiveCurrentEvents: UPDATE events SET archive_id = ? WHERE archive_id IS NULL
ArchiveCurrentEvents(ev, aid) ==
    [e \in DOMAIN ev |->
        IF ev[e].archive_id = Null THEN [ev[e] EXCEPT !.archive_id = aid]
        ELSE ev[e]]

\* UpdateEventJsonFilename / UpdateImageDiskFilename: no row, no change
UpdateEventJsonFilename(ev, id, name) ==
    IF id \in DOMAIN ev THEN [ev EXCEPT ![id].json_filename = Some(name)] ELSE ev
UpdateImageDiskFilename(im, id, name) ==
    IF id \in DOMAIN im THEN [im EXCEPT ![id].disk_filename = Some(name)] ELSE im

\* GetArchivedEventFiles: events LEFT JOIN images, one row per image and
\* one row with a NULL disk_filename for an event without images
GetArchivedEventFiles(ev, im, aid) ==
    LET RowsOf(e) ==
            LET mine == {i \in DOMAIN im : im[i].event_id = e}
                ids == Ascending(mine)
            IN  IF mine = {}
                THEN << [json_filename |-> ev[e].json_filename, disk_filename |-> None] >>
                ELSE [k \in DOMAIN ids |->
                        [json_filename |-> ev[e].json_filename,
                         disk_filename |-> im[ids[k]].disk_filename]]
        RECURSIVE Join(_)
        Join(es) == IF es = <<>> THEN <<>> ELSE RowsOf(Head(es)) \o Join(Tail(es))
    IN  Join(Ascending(ArchivedEventIds(ev, aid)))

\* a loop that removes the image files and leaves the payload files
RECURSIVE RemoveImageFiles(_)
RemoveImageFiles(files) ==
    IF files = <<>> THEN <<>>
    ELSE LET f == Head(files)
         IN  (IF f.disk_filename # None /\ f.disk_filename[1] # <<>>
              THEN << Path("images", f.disk_filename[1]) >> ELSE <<>>)
             \o RemoveImageFiles(Tail(files))

\* the os.Remove calls of HandleDeleteArchive, in the order of its loop
RECURSIVE RemoveCalls(_)
RemoveCalls(files) ==
    IF files = <<>> THEN <<>>
    ELSE LET f == Head(files)
             j == IF f.json_filename # None /\ f.json_filename[1] # <<>>
                  THEN << Path("json", f.json_filename[1]) >> ELSE <<>>
             d == IF f.disk_filename # None /\ f.disk_filename[1] # <<>>
                  THEN << Path("images", f.disk_filename[1]) >> ELSE <<>>
         IN  j \o d \o RemoveCalls(Tail(files))

\* DeleteArchiveImages
DeleteArchiveImages(im, ev, aid) ==
    Without(im, {i \in DOMAIN im : im[i].event_id \in ArchivedEventIds(ev, aid)})

\* DeleteArchiveEvents, and what ON DELETE CASCADE removes with the events
\* when foreign keys are enforced
DeleteArchiveEvents(ev, aid) == Without(ev, ArchivedEventIds(ev, aid))
CascadeImages(im, gone, fk) ==
    IF fk THEN Without(im, {i \in DOMAIN im : im[i].event_id \in gone}) ELSE im
CascadeCompareByEvent(cr, gone, fk) ==
    IF fk THEN {r \in cr : r.event_id \notin gone} ELSE cr

\* DeleteArchive: refused under enforced foreign keys while an event still
\* references the archive (events.archive_id has no ON DELETE action)
DeleteArchiveRefused(ev, id, fk) == fk /\ ArchivedEventIds(ev, id) # {}
DeleteArchive(ar, id) == Without(ar, {id})
CascadeCompareByArchive(cr, id, fk) ==
    IF fk THEN {r \in cr : r.archive_id # id} ELSE cr

\* a plain INSERT, on a table without the UNIQUE constraint
InsertCompareResult(cr, newID, a, e, f, v) ==
    cr \cup {[id |-> newID, archive_id |-> a, event_id |-> e, field |-> f,
              is_incorrect |-> v]}

\* SetCompareResult: INSERT ... ON CONFLICT(archive_id, event_id, field)
\* DO UPDATE SET is_incorrect = excluded.is_incorrect
SameKey(r, a, e, f) == r.archive_id = a /\ r.event_id = e /\ r.field = f
SetCompareResult(cr, newID, a, e, f, v) ==
    IF \E r \in cr : SameKey(r, a, e, f)
    THEN {IF SameKey(r, a, e, f) THEN [r EXCEPT !.is_incorrect = v] ELSE r : r \in cr}
    ELSE cr \cup {[id |-> newID, archive_id |-> a, event_id |-> e, field |-> f,
                   is_incorrect |-> v]}
\* the insert is refused under enforced foreign keys when the archive or the
\* event does not exist (an existing row is updated, not inserted)
SetCompareResultRefused(cr, ev, ar, a, e, f, fk) ==
    /\ fk
    /\ ~ \E r \in cr : SameKey(r, a, e, f)
    /\ (a \notin DOMAIN ar \/ e \notin DOMAIN ev)

(***************************************************************************)
(* State                                                                   *)
(***************************************************************************)
VARIABLES
    events,           \* id -> [archive_id, json_filename, car_id, plate_utf8, ...]
    images,           \* id -> [event_id, image_type, filename, disk_filename]
    archives,         \* id -> [name, event_count]
    compare_results,  \* set of [id, archive_id, event_id, field, is_incorrect]
    sqlite_sequence,  \* table -> the largest id AUTOINCREMENT has given out
    lastRowid,        \* pooled connection -> its last_insert_rowid()
    foreignKeys,      \* whether the connections enforce foreign keys
    disk,             \* the paths that exist under the data directory
    writes,           \* path -> how many os.WriteFile calls have targeted it
    api,              \* slot -> a HandleAPI request in flight
    clean,            \* slot -> a HandleClean request in flight
    del,              \* slot -> a HandleDeleteArchive request in flight
    toggle,           \* the last HandleCompareToggle request and its answer
    rename,           \* the last HandleRenameArchive request and its answer
    budget,           \* how many more requests and faults the run may see
    solo              \* slot -> the tables and the disk as they were when the
                      \* request began, while no other request has stepped since

db == <<events, images, archives, compare_results, sqlite_sequence, lastRowid>>
vars == <<events, images, archives, compare_results, sqlite_sequence, lastRowid,
          foreignKeys, disk, writes, api, clean, del, toggle, rename, budget, solo>>

\* the connections of the database/sql pool that have been opened
Conns == DOMAIN lastRowid

ApiSlots == {1, 2}
CleanSlots == {1, 2}
DelSlots == {1}

\* the locals of HandleAPI and, for the record, the request it serves, the
\* image rows it inserted, the paths it wrote, the writes that failed
\* (payload file, image rows) and how many inserts and id reads failed
IdleApi ==
    [pc |-> "idle", plate |-> <<>>, jsonFilename |-> <<>>, uploadedImages |-> <<>>,
     ImageArray |-> <<>>, eventID |-> 0, loop |-> "none", i |-> 0, rowID |-> 0,
     imgID |-> 0, imageCount |-> 0, status |-> 0,
     carID |-> <<>>, carState |-> <<>>, plateConfidence |-> None,
     confMMR |-> None, confColor |-> None, geoLat |-> None, geoLon |-> None,
     req |-> NoRequest, imageRows |-> {}, wrote |-> {}, jsonUnwritten |-> FALSE,
     unwritten |-> {}, insertErrs |-> 0, idErrs |-> 0]
IdleClean == [pc |-> "idle", count |-> 0, archiveID |-> 0, swept |-> 0,
              failed |-> FALSE, status |-> 0]
IdleDel == [pc |-> "idle", id |-> 0, removes |-> <<>>, missed |-> FALSE,
            failed |-> FALSE, status |-> 0, racing |-> {}]
NoToggle == [archive_id |-> 0, event_id |-> 0, field |-> "", incorrect |-> FALSE,
             status |-> 0, latest |-> <<>>]
NoRename == [id |-> 0, form |-> <<>>, name |-> <<>>, status |-> 0]

\* a slot may be taken when every slot before it is busy
FirstIdle(slots, p) ==
    /\ slots[p].pc = "idle"
    /\ \A q \in DOMAIN slots : q < p => slots[q].pc # "idle"

\* a storage or file-system call may fail while the run's fault budget lasts
MayFail == budget.faults > 0
Faulted == [budget EXCEPT !.faults = @ - 1]

CountWrite(path) ==
    IF path \in DOMAIN writes THEN [writes EXCEPT ![path] = @ + 1]
    ELSE writes @@ (path :> 1)

(***************************************************************************)
(* HandleAPI                                                               *)
(***************************************************************************)
\* the next image the two loops of HandleAPI work on, from position i of
\* loop: the uploaded images in order, then the ImageArray elements that are
\* neither empty nor undecodable
RECURSIVE NextImage(_, _, _, _)
NextImage(loop, i, uploadedImages, imageArray) ==
    IF loop = "uploaded"
    THEN IF i <= Len(uploadedImages) THEN [loop |-> "uploaded", i |-> i]
         ELSE NextImage("embedded", 1, uploadedImages, imageArray)
    ELSE IF i > Len(imageArray) THEN [loop |-> "done", i |-> 0]
    ELSE IF imageArray[i].BinaryImage = "" \/ ~Base64Valid(imageArray[i].BinaryImage)
    THEN NextImage("embedded", i + 1, uploadedImages, imageArray)
    ELSE [loop |-> "embedded", i |-> i]

\* a loop that starts the next image at its file write
ContinueAtWrite(r) ==
    LET n == NextImage(r.loop, r.i + 1, r.uploadedImages, r.ImageArray)
    IN  IF n.loop = "done"
        THEN [r EXCEPT !.pc = "done", !.loop = "done", !.i = 0, !.rowID = 0,
                       !.imgID = 0, !.status = 200]
        ELSE [r EXCEPT !.pc = "write_image", !.loop = n.loop, !.i = n.i,
                       !.rowID = 0, !.imgID = 0]

\* the request after the image at its position is finished with: at the
\* next image's insert, or answered 200 with the number of images counted
Continue(r) ==
    LET n == NextImage(r.loop, r.i + 1, r.uploadedImages, r.ImageArray)
    IN  IF n.loop = "done"
        THEN [r EXCEPT !.pc = "done", !.loop = "done", !.i = 0, !.rowID = 0,
                       !.imgID = 0, !.status = 200]
        ELSE [r EXCEPT !.pc = "insert_image", !.loop = n.loop, !.i = n.i,
                       !.rowID = 0, !.imgID = 0]

\* the InsertImageParams of the image at the request's position
ImageParams(r) ==
    IF r.loop = "uploaded"
    THEN [event_id |-> r.eventID,
          image_type |-> UploadedImageType(r.uploadedImages[r.i]),
          filename |-> Some(r.uploadedImages[r.i]),
          disk_filename |-> None]
    ELSE [event_id |-> r.eventID,
          image_type |-> EmbeddedType(r.ImageArray[r.i]),
          filename |-> Some(EmbeddedFilename(r.ImageArray[r.i], r.i - 1)),
          disk_filename |-> None]

\* the name the image at the request's position gets on disk
DiskFilename(r) ==
    IF r.loop = "uploaded"
    THEN UploadedDiskName(r.imgID, r.uploadedImages[r.i], r.plate, r.i - 1)
    ELSE EmbeddedDiskName(r.imgID, r.plate, EmbeddedType(r.ImageArray[r.i]),
                          EmbeddedExt(r.ImageArray[r.i]))

\* the request arrives, is read and is unmarshalled
ApiReceive(p, req) ==
    /\ FirstIdle(api, p)
    /\ budget.api > 0
    /\ budget' = [budget EXCEPT !.api = @ - 1]
    /\ LET c == ReadRequest(req)
       IN  api' = [api EXCEPT ![p] =
              IF RequestError(req) # 0
              THEN [IdleApi EXCEPT !.pc = "done", !.status = RequestError(req),
                                   !.req = req]
              ELSE [IdleApi EXCEPT
                      !.pc = "insert_event",
                      !.req = req,
                      !.carID = NormalCarID(c.rawJSON, req.unixNano),
                      !.carState = coalesce(<<c.rawJSON.CarState, c.rawJSON.CarState2>>),
                      !.plateConfidence = NormalPlateConfidence(c.rawJSON),
                      !.confMMR = NormalConfMMR(c.rawJSON),
                      !.confColor = NormalConfColor(c.rawJSON),
                      !.geoLat = NormalGeoLat(c.rawJSON),
                      !.geoLon = NormalGeoLon(c.rawJSON),
                      !.plate = coalesce(<<c.rawJSON.PlateUTF8, c.rawJSON.PlateText>>),
                      !.jsonFilename = c.jsonFilename,
                      !.uploadedImages = c.uploadedImages,
                      !.ImageArray = c.rawJSON.ImageArray]]
    /\ UNCHANGED <<db, foreignKeys, disk, writes, clean, del, toggle, rename>>

\* the row InsertEvent stores: the normalised values, no archive, no file
InsertEventParams(r) ==
    [archive_id |-> Null, json_filename |-> None,
     car_id |-> r.carID, plate_utf8 |-> ptrIfNotEmpty(r.plate),
     car_state |-> ptrIfNotEmpty(r.carState),
     plate_confidence |-> r.plateConfidence,
     confidence_mmr |-> r.confMMR, confidence_color |-> r.confColor,
     geotag_lat |-> r.geoLat, geotag_lon |-> r.geoLon]

\* a handler that goes on after a failed InsertEvent, with eventID 0
InsertEventIgnored(r) == [r EXCEPT !.pc = "write_json"]

\* the request after a failed InsertEvent: answered 500, nothing else done
InsertEventFailed(r) == [IdleApi EXCEPT !.pc = "done", !.status = 500, !.req = r.req]

\* q.InsertEvent: the row gets the next id, or the insert fails and the
\* request is answered 500
ApiInsertEvent(p) ==
    /\ api[p].pc = "insert_event"
    /\ \/ \E c \in Conns :
            LET id == sqlite_sequence["events"] + 1
            IN  /\ events' = events @@ (id :> InsertEventParams(api[p]))
                /\ sqlite_sequence' = [sqlite_sequence EXCEPT !["events"] = id]
                /\ lastRowid' = [lastRowid EXCEPT ![c] = id]
                /\ api' = [api EXCEPT ![p].pc = "write_json", ![p].eventID = id]
                /\ UNCHANGED budget
       \/ /\ MayFail
          /\ budget' = Faulted
          /\ api' = [api EXCEPT ![p] = InsertEventFailed(api[p])]
          /\ UNCHANGED <<events, sqlite_sequence, lastRowid>>
    /\ UNCHANGED <<images, archives, compare_results, foreignKeys, disk, writes,
                   clean, del, toggle, rename>>

\* the first image's insert, or the answer when there is no image
AfterJson(r) == Continue([r EXCEPT !.loop = "uploaded", !.i = 0])

\* os.WriteFile of the payload under json/
ApiWriteJson(p) ==
    /\ api[p].pc = "write_json"
    /\ LET r == api[p]
           jsonPath == Path("json", JsonDiskName(r.eventID, r.jsonFilename, r.plate))
       IN  /\ writes' = CountWrite(jsonPath)
           /\ \/ /\ disk' = disk \cup {jsonPath}
                 /\ api' = [api EXCEPT ![p].pc = "update_json",
                                       ![p].wrote = @ \cup {jsonPath}]
                 /\ UNCHANGED budget
              \/ /\ MayFail
                 /\ budget' = Faulted
                 /\ api' = [api EXCEPT ![p] = AfterJson([r EXCEPT !.jsonUnwritten = TRUE])]
                 /\ UNCHANGED disk
    /\ UNCHANGED <<db, foreignKeys, clean, del, toggle, rename>>

\* q.UpdateEventJsonFilename, whose error HandleAPI does not look at
ApiUpdateJson(p) ==
    /\ api[p].pc = "update_json"
    /\ LET r == api[p]
       IN  /\ \/ /\ events' = UpdateEventJsonFilename(events, r.eventID,
                                  JsonDiskName(r.eventID, r.jsonFilename, r.plate))
                 /\ UNCHANGED budget
              \/ /\ MayFail
                 /\ budget' = Faulted
                 /\ UNCHANGED events
           /\ api' = [api EXCEPT ![p] = AfterJson(r)]
    /\ UNCHANGED <<images, archives, compare_results, sqlite_sequence, lastRowid,
                   foreignKeys, disk, writes, clean, del, toggle, rename>>

\* InsertImage is refused under enforced foreign keys when the event is gone
InsertImageRefused(ev, eventID, fk) == fk /\ eventID \notin DOMAIN ev

\* insertImageWithID, first statement: q.InsertImage on a pooled connection
ApiInsertImage(p) ==
    /\ api[p].pc = "insert_image"
    /\ LET r == api[p]
       IN  \/ /\ ~InsertImageRefused(events, r.eventID, foreignKeys)
              /\ \E c \in Conns :
                   LET id == sqlite_sequence["images"] + 1
                   IN  /\ images' = images @@ (id :> ImageParams(r))
                       /\ sqlite_sequence' = [sqlite_sequence EXCEPT !["images"] = id]
                       /\ lastRowid' = [lastRowid EXCEPT ![c] = id]
                       /\ api' = [api EXCEPT ![p].pc = "last_insert_rowid",
                                             ![p].rowID = id,
                                             ![p].imageRows = @ \cup {id}]
              /\ UNCHANGED budget
           \/ /\ InsertImageRefused(events, r.eventID, foreignKeys)
              /\ api' = [api EXCEPT ![p] = Continue([r EXCEPT !.insertErrs = @ + 1])]
              /\ UNCHANGED <<images, sqlite_sequence, lastRowid, budget>>
           \/ /\ MayFail
              /\ budget' = Faulted
              /\ api' = [api EXCEPT ![p] = Continue([r EXCEPT !.insertErrs = @ + 1])]
              /\ UNCHANGED <<images, sqlite_sequence, lastRowid>>
    /\ UNCHANGED <<events, archives, compare_results, foreignKeys, disk, writes,
                   clean, del, toggle, rename>>

\* the id SELECT last_insert_rowid() returns on the connection it runs on
LastInsertRowid(rowid, c) == rowid[c]

\* insertImageWithID, second statement: s.DB.QueryRowContext takes a
\* connection of the pool and reads its last_insert_rowid()
ApiLastInsertRowid(p) ==
    /\ api[p].pc = "last_insert_rowid"
    /\ LET r == api[p]
       IN  \/ /\ \E c \in Conns :
                   api' = [api EXCEPT ![p].pc = "write_image",
                                      ![p].imgID = LastInsertRowid(lastRowid, c),
                                      ![p].imageCount = @ + 1]
              /\ UNCHANGED budget
           \/ /\ MayFail
              /\ budget' = Faulted
              /\ api' = [api EXCEPT ![p] = Continue([r EXCEPT !.idErrs = @ + 1])]
    /\ UNCHANGED <<db, foreignKeys, disk, writes, clean, del, toggle, rename>>

\* os.WriteFile of the image under images/
ApiWriteImage(p) ==
    /\ api[p].pc = "write_image"
    /\ LET r == api[p]
           imgPath == Path("images", DiskFilename(r))
       IN  /\ writes' = CountWrite(imgPath)
           /\ \/ /\ disk' = disk \cup {imgPath}
                 /\ api' = [api EXCEPT ![p].pc = "update_image",
                                       ![p].wrote = @ \cup {imgPath}]
                 /\ UNCHANGED budget
              \/ /\ MayFail
                 /\ budget' = Faulted
                 /\ api' = [api EXCEPT ![p] =
                                Continue([r EXCEPT !.unwritten = @ \cup {r.rowID}])]
                 /\ UNCHANGED disk
    /\ UNCHANGED <<db, foreignKeys, clean, del, toggle, rename>>

\* q.UpdateImageDiskFilename, whose error HandleAPI does not look at
ApiUpdateImage(p) ==
    /\ api[p].pc = "update_image"
    /\ LET r == api[p]
       IN  /\ \/ /\ images' = UpdateImageDiskFilename(images, r.imgID, DiskFilename(r))
                 /\ UNCHANGED budget
              \/ /\ MayFail
                 /\ budget' = Faulted
                 /\ UNCHANGED images
           /\ api' = [api EXCEPT ![p] = Continue(r)]
    /\ UNCHANGED <<events, archives, compare_results, sqlite_sequence, lastRowid,
                   foreignKeys, disk, writes, clean, del, toggle, rename>>

\* the answer is sent and the handler returns
ApiReturn(p) ==
    /\ api[p].pc = "done"
    /\ api' = [api EXCEPT ![p] = IdleApi]
    /\ UNCHANGED <<db, foreignKeys, disk, writes, clean, del, toggle, rename, budget>>

(***************************************************************************)
(* HandleClean                                                             *)
(***************************************************************************)
\* now.Format("2006-01-02 15:04:05"): the clock is not modelled, every
\* archive is named by the same second
ArchiveName == <<"2","0","2","6","-","0","1","-","2","1">>

\* a test that lets a count of zero through
CleanOnlyOnError(failed, count) == failed

\* the test after CountCurrentEvents: nothing to archive, or the count failed
CleanNothingToDo(failed, count) == failed \/ count = 0

\* q.CountCurrentEvents; HandleClean redirects when it fails or counts zero
CleanCount(p) ==
    /\ FirstIdle(clean, p)
    /\ budget.clean > 0
    /\ \/ /\ budget' = [budget EXCEPT !.clean = @ - 1]
          /\ clean' = [clean EXCEPT ![p] =
                IF CleanNothingToDo(FALSE, CountCurrentEvents(events))
                THEN [IdleClean EXCEPT !.pc = "done", !.status = 303]
                ELSE [IdleClean EXCEPT !.pc = "create_archive",
                                       !.count = CountCurrentEvents(events)]]
       \/ /\ MayFail
          /\ budget' = [budget EXCEPT !.clean = @ - 1, !.faults = @ - 1]
          /\ clean' = [clean EXCEPT ![p] =
                IF CleanNothingToDo(TRUE, 0)
                THEN [IdleClean EXCEPT !.pc = "done", !.status = 303, !.failed = TRUE]
                ELSE [IdleClean EXCEPT !.pc = "create_archive", !.failed = TRUE]]
    /\ UNCHANGED <<db, foreignKeys, disk, writes, api, del, toggle, rename>>

\* q.CreateArchive with the count read before
CleanCreateArchive(p) ==
    /\ clean[p].pc = "create_archive"
    /\ \/ \E c \in Conns :
            LET id == sqlite_sequence["archives"] + 1
            IN  /\ archives' = archives @@
                      (id :> [name |-> Some(ArchiveName), event_count |-> clean[p].count])
                /\ sqlite_sequence' = [sqlite_sequence EXCEPT !["archives"] = id]
                /\ lastRowid' = [lastRowid EXCEPT ![c] = id]
                /\ clean' = [clean EXCEPT ![p].pc = "archive_events", ![p].archiveID = id]
                /\ UNCHANGED budget
       \/ /\ MayFail
          /\ budget' = Faulted
          /\ clean' = [clean EXCEPT ![p].pc = "done", ![p].status = 500,
                                    ![p].failed = TRUE]
          /\ UNCHANGED <<archives, sqlite_sequence, lastRowid>>
    /\ UNCHANGED <<events, images, compare_results, foreignKeys, disk, writes,
                   api, del, toggle, rename>>

\* ArchiveCurrentEvents is refused under enforced foreign keys when the
\* archive row is gone and there is an event to move
ArchiveCurrentEventsRefused(ev, ar, aid, fk) ==
    fk /\ aid \notin DOMAIN ar /\ CurrentEventIds(ev) # {}

\* q.ArchiveCurrentEvents: one bulk update
CleanArchiveEvents(p) ==
    /\ clean[p].pc = "archive_events"
    /\ LET aid == clean[p].archiveID
       IN  \/ /\ ~ArchiveCurrentEventsRefused(events, archives, aid, foreignKeys)
              /\ events' = ArchiveCurrentEvents(events, aid)
              /\ clean' = [clean EXCEPT ![p].pc = "done", ![p].status = 303,
                              ![p].swept = Cardinality({e \in DOMAIN events :
                                  events[e].archive_id # events'[e].archive_id})]
              /\ UNCHANGED budget
           \/ /\ ArchiveCurrentEventsRefused(events, archives, aid, foreignKeys)
              /\ clean' = [clean EXCEPT ![p].pc = "done", ![p].status = 500,
                                        ![p].failed = TRUE]
              /\ UNCHANGED <<events, budget>>
           \/ /\ MayFail
              /\ budget' = Faulted
              /\ clean' = [clean EXCEPT ![p].pc = "done", ![p].status = 500,
                                        ![p].failed = TRUE]
              /\ UNCHANGED events
    /\ UNCHANGED <<images, archives, compare_results, sqlite_sequence, lastRowid,
                   foreignKeys, disk, writes, api, del, toggle, rename>>

CleanReturn(p) ==
    /\ clean[p].pc = "done"
    /\ clean' = [clean EXCEPT ![p] = IdleClean]
    /\ UNCHANGED <<db, foreignKeys, disk, writes, api, del, toggle, rename, budget>>

(***************************************************************************)
(* HandleDeleteArchive                                                     *)
(***************************************************************************)
\* where the handler goes once no os.Remove call is left
AfterRemoves(d) ==
    IF d.removes = <<>> THEN [d EXCEPT !.pc = "delete_images"]
    ELSE [d EXCEPT !.pc = "remove"]

\* for the record: the ingestions still at work whose event is in the
\* archive when its delete begins
Racing(id) ==
    {p \in ApiSlots :
        /\ api[p].pc \notin {"idle", "done"}
        /\ api[p].eventID \in DOMAIN events
        /\ events[api[p].eventID].archive_id = id}

\* q.GetArchivedEventFiles; a failure is logged and leaves no file to remove
DelGetFiles(p, id) ==
    /\ FirstIdle(del, p)
    /\ budget.del > 0
    /\ \/ /\ budget' = [budget EXCEPT !.del = @ - 1]
          /\ del' = [del EXCEPT ![p] = AfterRemoves([IdleDel EXCEPT !.id = id,
                        !.racing = Racing(id),
                        !.removes = RemoveCalls(GetArchivedEventFiles(events, images, id))])]
       \/ /\ MayFail
          /\ budget' = [budget EXCEPT !.del = @ - 1, !.faults = @ - 1]
          /\ del' = [del EXCEPT ![p] = AfterRemoves([IdleDel EXCEPT !.id = id,
                                                     !.racing = Racing(id),
                                                     !.failed = TRUE])]
    /\ UNCHANGED <<db, foreignKeys, disk, writes, api, clean, toggle, rename>>

\* os.Remove of the next file; its error (a missing file, or any other) is
\* not looked at
DelRemove(p) ==
    /\ del[p].pc = "remove"
    /\ LET d == del[p]
       IN  \/ /\ disk' = disk \ {Head(d.removes)}
              /\ del' = [del EXCEPT ![p] = AfterRemoves([d EXCEPT !.removes = Tail(@),
                              !.missed = @ \/ Head(d.removes) \notin disk])]
              /\ UNCHANGED budget
           \/ /\ MayFail
              /\ Head(d.removes) \in disk
              /\ budget' = Faulted
              /\ del' = [del EXCEPT ![p] = AfterRemoves([d EXCEPT !.removes = Tail(@),
                                                                  !.failed = TRUE])]
              /\ UNCHANGED disk
    /\ UNCHANGED <<db, foreignKeys, writes, api, clean, toggle, rename>>

\* q.DeleteArchiveImages; a failure is logged and the handler goes on
DelImages(p) ==
    /\ del[p].pc = "delete_images"
    /\ \/ /\ images' = DeleteArchiveImages(images, events, del[p].id)
          /\ del' = [del EXCEPT ![p].pc = "delete_events"]
          /\ UNCHANGED budget
       \/ /\ MayFail
          /\ budget' = Faulted
          /\ del' = [del EXCEPT ![p].pc = "delete_events", ![p].failed = TRUE]
          /\ UNCHANGED images
    /\ UNCHANGED <<events, archives, compare_results, sqlite_sequence, lastRowid,
                   foreignKeys, disk, writes, api, clean, toggle, rename>>

\* q.DeleteArchiveEvents; a failure is logged and the handler goes on
DelEvents(p) ==
    /\ del[p].pc = "delete_events"
    /\ \/ /\ events' = DeleteArchiveEvents(events, del[p].id)
          /\ images' = CascadeImages(images, ArchivedEventIds(events, del[p].id),
                                     foreignKeys)
          /\ compare_results' = CascadeCompareByEvent(compare_results,
                                     ArchivedEventIds(events, del[p].id), foreignKeys)
          /\ del' = [del EXCEPT ![p].pc = "delete_archive"]
          /\ UNCHANGED budget
       \/ /\ MayFail
          /\ budget' = Faulted
          /\ del' = [del EXCEPT ![p].pc = "delete_archive", ![p].failed = TRUE]
          /\ UNCHANGED <<events, images, compare_results>>
    /\ UNCHANGED <<archives, sqlite_sequence, lastRowid, foreignKeys, disk, writes,
                   api, clean, toggle, rename>>

\* q.DeleteArchive; a failure is logged and the handler redirects all the same
DelArchive(p) ==
    /\ del[p].pc = "delete_archive"
    /\ \/ /\ ~DeleteArchiveRefused(events, del[p].id, foreignKeys)
          /\ archives' = DeleteArchive(archives, del[p].id)
          /\ compare_results' = CascadeCompareByArchive(compare_results, del[p].id,
                                                        foreignKeys)
          /\ del' = [del EXCEPT ![p].pc = "done", ![p].status = 303]
          /\ UNCHANGED budget
       \/ /\ DeleteArchiveRefused(events, del[p].id, foreignKeys)
          /\ del' = [del EXCEPT ![p].pc = "done", ![p].status = 303, ![p].failed = TRUE]
          /\ UNCHANGED <<archives, compare_results, budget>>
       \/ /\ MayFail
          /\ budget' = Faulted
          /\ del' = [del EXCEPT ![p].pc = "done", ![p].status = 303, ![p].failed = TRUE]
          /\ UNCHANGED <<archives, compare_results>>
    /\ UNCHANGED <<events, images, sqlite_sequence, lastRowid, foreignKeys, disk,
                   writes, api, clean, toggle, rename>>

DelReturn(p) ==
    /\ del[p].pc = "done"
    /\ del' = [del EXCEPT ![p] = IdleDel]
    /\ UNCHANGED <<db, foreignKeys, disk, writes, api, clean, toggle, rename, budget>>

(***************************************************************************)
(* HandleCompareToggle and HandleRenameArchive                             *)
(***************************************************************************)
\* how many requests on a key were answered 200
Calls(latest, k) == IF k \in DOMAIN latest THEN latest[k].calls ELSE 0

\* a variant of the field test that lets every field through
AnyField(f) == TRUE

\* the field test of HandleCompareToggle
FieldIsValid(f) == f \in validFields

\* one toggle request: 400 for a field that is not valid, 500 when the
\* statement fails, else the upsert and {"ok":true}; toggle keeps the request, its
\* answer and, per key, the value of the latest request answered 200 and the
\* number of such requests
HandleCompareToggle(a, e, f, v) ==
    /\ budget.toggle > 0
    /\ LET id == sqlite_sequence["compare_results"] + 1
           inserts == ~ \E r \in compare_results : SameKey(r, a, e, f)
       IN  \/ /\ ~FieldIsValid(f)
              /\ toggle' = [toggle EXCEPT !.archive_id = a, !.event_id = e,
                               !.field = f, !.incorrect = v, !.status = 400]
              /\ budget' = [budget EXCEPT !.toggle = @ - 1]
              /\ UNCHANGED <<compare_results, sqlite_sequence, lastRowid>>
           \/ /\ FieldIsValid(f)
              /\ ~SetCompareResultRefused(compare_results, events, archives,
                                          a, e, f, foreignKeys)
              /\ compare_results' = SetCompareResult(compare_results, id, a, e, f, v)
              /\ \E c \in Conns :
                   /\ sqlite_sequence' = IF inserts
                        THEN [sqlite_sequence EXCEPT !["compare_results"] = id]
                        ELSE sqlite_sequence
                   /\ lastRowid' = IF inserts THEN [lastRowid EXCEPT ![c] = id]
                                   ELSE lastRowid
              /\ toggle' = [toggle EXCEPT !.archive_id = a, !.event_id = e,
                               !.field = f, !.incorrect = v, !.status = 200,
                               !.latest = (<<a, e, f>> :>
                                   [value |-> v, calls |-> Calls(@, <<a, e, f>>) + 1]) @@ @]
              /\ budget' = [budget EXCEPT !.toggle = @ - 1]
           \/ /\ FieldIsValid(f)
              /\ \/ /\ SetCompareResultRefused(compare_results, events, archives,
                                               a, e, f, foreignKeys)
                    /\ budget' = [budget EXCEPT !.toggle = @ - 1]
                 \/ /\ MayFail
                    /\ budget' = [budget EXCEPT !.toggle = @ - 1, !.faults = @ - 1]
              /\ toggle' = [toggle EXCEPT !.archive_id = a, !.event_id = e,
                               !.field = f, !.incorrect = v, !.status = 500]
              /\ UNCHANGED <<compare_results, sqlite_sequence, lastRowid>>
    /\ UNCHANGED <<events, images, archives, foreignKeys, disk, writes, api, clean,
                   del, rename>>

\* a name taken as it was typed
KeepSpace(s) == s

\* strings.TrimSpace: the white space of the names of a run is the blank,
\* the tab and the line feed
IsSpace(c) == c \in {" ", "\t", "\n"}
RECURSIVE TrimLeft(_)
TrimLeft(s) == IF s # <<>> /\ IsSpace(Head(s)) THEN TrimLeft(Tail(s)) ELSE s
RECURSIVE TrimRight(_)
TrimRight(s) == IF s # <<>> /\ IsSpace(s[Len(s)])
                THEN TrimRight(SubSeq(s, 1, Len(s) - 1)) ELSE s
TrimSpace(s) == TrimRight(TrimLeft(s))

\* q.RenameArchive: the name of the archive with that id, if there is one
RenameArchive(ar, id, name) ==
    IF id \in DOMAIN ar THEN [ar EXCEPT ![id].name = Some(name)] ELSE ar

\* one rename request: 400 for a name that trims to nothing, 500 when the
\* statement fails, else the update and a redirect
HandleRenameArchive(id, formName) ==
    /\ budget.rename > 0
    /\ LET name == TrimSpace(formName)
       IN  \/ /\ name = <<>>
              /\ rename' = [id |-> id, form |-> formName, name |-> name, status |-> 400]
              /\ budget' = [budget EXCEPT !.rename = @ - 1]
              /\ UNCHANGED archives
           \/ /\ name # <<>>
              /\ archives' = RenameArchive(archives, id, name)
              /\ rename' = [id |-> id, form |-> formName, name |-> name, status |-> 303]
              /\ budget' = [budget EXCEPT !.rename = @ - 1]
           \/ /\ name # <<>>
              /\ MayFail
              /\ rename' = [id |-> id, form |-> formName, name |-> name, status |-> 500]
              /\ budget' = [budget EXCEPT !.rename = @ - 1, !.faults = @ - 1]
              /\ UNCHANGED archives
    /\ UNCHANGED <<events, images, compare_results, sqlite_sequence, lastRowid,
                   foreignKeys, disk, writes, api, clean, del, toggle>>

(***************************************************************************)
(* The requests of a run                                                   *)
(***************************************************************************)
\* a multipart request with a .json part and one image part whose name
\* holds a character sanitizeFilename replaces
ReqMultipart ==
    MultipartRequest(
        << FilePart(<<"e",".","j","s","o","n">>, Doc(<<>>, <<>>, <<>>)),
           FilePart(<<"a","/",".","j","p","g">>, ImageBytes) >>,
        NilPayload, NilPayload)

\* a plain JSON body with a plate and one embedded image
ReqEmbedded ==
    JsonRequest(Doc(<<"A","1">>, <<>>,
        << [ImageType |-> <<>>, ImageFormat |-> <<>>, BinaryImage |-> "b64"] >>))

\* a plain JSON body with a plate and no image
ReqPlain == JsonRequest(Doc(<<>>, <<"A","1">>, <<>>))

\* a plain JSON body with a plate and two embedded images
ReqTwoImages ==
    JsonRequest(Doc(<<"A","1">>, <<>>,
        << [ImageType |-> <<"p">>, ImageFormat |-> <<>>, BinaryImage |-> "b64"],
           [ImageType |-> <<>>, ImageFormat |-> <<"p","n","g">>, BinaryImage |-> "b64"] >>))

\* a multipart request with a .json part, two image parts (one with an
\* upper-case extension) and a part that is neither
ReqUpload ==
    MultipartRequest(
        << FilePart(<<"e",".","j","s","o","n">>, Doc(<<"A","1">>, <<>>, <<>>)),
           FilePart(<<"a",".","j","p","g">>, ImageBytes),
           FilePart(<<"n",".","t","x","t">>, ImageBytes),
           FilePart(<<"b",".","P","N","G">>, ImageBytes) >>,
        NilPayload, NilPayload)

\* a plain JSON body whose ImageArray holds an element with an empty
\* BinaryImage, one that is not base64, and one that decodes
ReqSkips ==
    JsonRequest(Doc(<<>>, <<"A","1">>,
        << [ImageType |-> <<>>, ImageFormat |-> <<>>, BinaryImage |-> ""],
           [ImageType |-> <<>>, ImageFormat |-> <<>>, BinaryImage |-> "!!"],
           [ImageType |-> <<>>, ImageFormat |-> <<>>, BinaryImage |-> "b64"] >>))

\* requests without payload bytes: a multipart request with an image part
\* only, one whose json and data fields are empty, one whose .json part is
\* empty while its json field holds a document, and an empty plain body
ReqNoJson ==
    MultipartRequest(<< FilePart(<<"a",".","j","p","g">>, ImageBytes) >>,
                     NilPayload, NilPayload)
ReqEmptyFields == MultipartRequest(<<>>, EmptyPayload, EmptyPayload)
ReqEmptyJsonPart ==
    MultipartRequest(<< FilePart(<<"e",".","j","s","o","n">>, EmptyPayload),
                        FilePart(<<"a",".","j","p","g">>, ImageBytes) >>,
                     Doc(<<"A","1">>, <<>>, <<>>), NilPayload)
ReqEmptyBody == JsonRequest(EmptyPayload)

\* requests whose payload bytes are not JSON: as a plain body, as a .json
\* part next to an image part, and as the data field
ReqBadBody == JsonRequest(InvalidPayload)
ReqBadJsonPart ==
    MultipartRequest(<< FilePart(<<"e",".","j","s","o","n">>, InvalidPayload),
                        FilePart(<<"a",".","j","p","g">>, ImageBytes) >>,
                     NilPayload, NilPayload)
ReqBadData == MultipartRequest(<<>>, NilPayload, InvalidPayload)

\* a multipart request whose document comes in the json field
ReqJsonField ==
    MultipartRequest(<< FilePart(<<"a",".","j","p","g">>, ImageBytes) >>,
                     Doc(<<"A","1">>, <<>>, <<>>), NilPayload)

\* a plain body in which each synonym is filled or left empty by one bit of
\* k: carID, carid, carId by bits 0, 1, 2; plateUTF8, plateText by bits 1, 2;
\* carState, carstate by bits 2, 0; handled at clock reading unixNano
Bit(k, n) == (k \div (2 ^ n)) % 2 = 1
Filled(on, text) == IF on THEN text ELSE <<>>
ReqSynonyms(k, unixNano) ==
    [JsonRequest([NilPayload EXCEPT
        !.kind = "json",
        !.CarID = Filled(Bit(k, 0), <<"c","1">>),
        !.CarId = Filled(Bit(k, 1), <<"c","2">>),
        !.CarId2 = Filled(Bit(k, 2), <<"c","3">>),
        !.PlateUTF8 = Filled(Bit(k, 1), <<"P","1">>),
        !.PlateText = Filled(Bit(k, 2), <<"P","2">>),
        !.CarState = Filled(Bit(k, 2), <<"i","n">>),
        !.CarState2 = Filled(Bit(k, 0), <<"o","u","t">>)])
     EXCEPT !.unixNano = unixNano]

\* a plain body with a car id and the three confidence strings; the
\* vehicle_info group is left out when both of its strings are empty
ReqConfidence(plateConfidence, confidenceMMR, confidenceColor) ==
    JsonRequest([NilPayload EXCEPT
        !.kind = "json",
        !.CarID = <<"c","1">>,
        !.PlateConfidence = plateConfidence,
        !.VehicleInfo = IF confidenceMMR = <<>> /\ confidenceColor = <<>> THEN None
                        ELSE VehicleInfo(confidenceMMR, confidenceColor)])

\* a plain body with a car id and a geotag, or without one (None)
ReqGeotag(geotag) ==
    JsonRequest([NilPayload EXCEPT !.kind = "json", !.CarID = <<"c","1">>,
                                   !.Geotag = geotag])

\* a multipart request with a .json part and one image part of that name
ReqNamed(filename) ==
    MultipartRequest(
        << FilePart(<<"e",".","j","s","o","n">>, Doc(<<"A","1">>, <<>>, <<>>)),
           FilePart(filename, ImageBytes) >>,
        NilPayload, NilPayload)

\* a plain body with one embedded image of that declared type
ReqTyped(imageType) ==
    JsonRequest(Doc(<<"A","1">>, <<>>,
        << [ImageType |-> imageType, ImageFormat |-> <<>>, BinaryImage |-> "b64"] >>))

\* texts with path separators and dots, as a client may send them
DotDotName == <<".",".","/","a",".","j","p","g">>
DotDotType == <<"/",".",".","/",".",".","/","x">>

\* plain bodies with one embedded image: one whose plate holds a separator,
\* one whose declared format holds one
ReqSlashPlate ==
    JsonRequest(Doc(<<"A","/","1">>, <<>>,
        << [ImageType |-> <<>>, ImageFormat |-> <<>>, BinaryImage |-> "b64"] >>))
ReqSlashFormat ==
    JsonRequest(Doc(<<"A","1">>, <<>>,
        << [ImageType |-> <<>>, ImageFormat |-> <<"j","/","p">>, BinaryImage |-> "b64"] >>))

ArchiveIds == {1, 2}
EventIds == {1, 2}

(***************************************************************************)
(* Next-state relations                                                    *)
(***************************************************************************)
NotSolo == [on |-> FALSE, events |-> <<>>, images |-> <<>>, archives |-> <<>>,
            compare_results |-> {}, disk |-> {}]
SoloNow == [on |-> TRUE, events |-> events, images |-> images, archives |-> archives,
            compare_results |-> compare_results, disk |-> disk]
Nobody == [clean |-> [q \in CleanSlots |-> NotSolo], del |-> [q \in DelSlots |-> NotSolo]]

\* after a step of clean or delete slot p: p is on its own if it just began
\* or still was, and nobody else is
SoloClean(p) ==
    [Nobody EXCEPT !.clean[p] = IF clean[p].pc = "idle" THEN SoloNow ELSE solo.clean[p]]
SoloDel(p) ==
    [Nobody EXCEPT !.del[p] = IF del[p].pc = "idle" THEN SoloNow ELSE solo.del[p]]

Budget(nApi, nClean, nDel, nToggle, nRename, nFaults) ==
    [api |-> nApi, clean |-> nClean, del |-> nDel, toggle |-> nToggle,
     rename |-> nRename, faults |-> nFaults]

\* PRAGMA foreign_keys is set where the database is opened (db/db.go);
\* SQLite leaves it off unless it is set, so a run starts with either
ForeignKeysSetting == BOOLEAN

InitWith(b, conns) ==
    /\ events = <<>>
    /\ images = <<>>
    /\ archives = <<>>
    /\ compare_results = {}
    /\ sqlite_sequence = [t \in Tables |-> 0]
    /\ lastRowid = [c \in conns |-> 0]
    /\ foreignKeys \in ForeignKeysSetting
    /\ disk = {}
    /\ writes = <<>>
    /\ api = [p \in ApiSlots |-> IdleApi]
    /\ clean = [p \in CleanSlots |-> IdleClean]
    /\ del = [p \in DelSlots |-> IdleDel]
    /\ toggle = NoToggle
    /\ rename = NoRename
    /\ budget = b
    /\ solo = Nobody

\* HandleAPI up to the payload file
ApiEventNext(slots, reqs) ==
    \/ \E p \in slots, req \in reqs : ApiReceive(p, req) /\ UNCHANGED solo
    \/ \E p \in slots : ApiInsertEvent(p) /\ solo' = Nobody
    \/ \E p \in slots : ApiWriteJson(p) /\ solo' = Nobody
    \/ \E p \in slots : ApiUpdateJson(p) /\ solo' = Nobody
    \/ \E p \in slots : ApiReturn(p) /\ UNCHANGED solo

\* HandleAPI's two image loops
ApiImageNext(slots) ==
    \/ \E p \in slots : ApiInsertImage(p) /\ solo' = Nobody
    \/ \E p \in slots : ApiLastInsertRowid(p) /\ solo' = Nobody
    \/ \E p \in slots : ApiWriteImage(p) /\ solo' = Nobody
    \/ \E p \in slots : ApiUpdateImage(p) /\ solo' = Nobody

CleanNext(slots) ==
    \/ \E p \in slots : CleanCount(p) /\ solo' = SoloClean(p)
    \/ \E p \in slots : CleanCreateArchive(p) /\ solo' = SoloClean(p)
    \/ \E p \in slots : CleanArchiveEvents(p) /\ solo' = SoloClean(p)
    \/ \E p \in slots : CleanReturn(p) /\ solo' = [solo EXCEPT !.clean[p] = NotSolo]

DelNext(slots, ids) ==
    \/ \E p \in slots, id \in ids : DelGetFiles(p, id) /\ solo' = SoloDel(p)
    \/ \E p \in slots : DelRemove(p) /\ solo' = SoloDel(p)
    \/ \E p \in slots : DelImages(p) /\ solo' = SoloDel(p)
    \/ \E p \in slots : DelEvents(p) /\ solo' = SoloDel(p)
    \/ \E p \in slots : DelArchive(p) /\ solo' = SoloDel(p)
    \/ \E p \in slots : DelReturn(p) /\ solo' = [solo EXCEPT !.del[p] = NotSolo]

ToggleNext(as, es, fs) ==
    \E a \in as, e \in es, f \in fs, v \in BOOLEAN :
        HandleCompareToggle(a, e, f, v) /\ solo' = Nobody

RenameNext(ids, names) ==
    \E id \in ids, n \in names : HandleRenameArchive(id, n) /\ solo' = Nobody

(***************************************************************************)
(* SpecIngest: ingestion requests running concurrently on a pool of two    *)
(* connections                                                             *)
(***************************************************************************)
IngestMaxApi == 2
IngestMaxFaults == 1

SpecIngest ==
    /\ InitWith(Budget(IngestMaxApi, 0, 0, 0, 0, IngestMaxFaults), {"conn1", "conn2"})
    /\ [][\/ ApiEventNext(ApiSlots, {ReqMultipart, ReqEmbedded})
          \/ ApiImageNext(ApiSlots)]_vars

(***************************************************************************)
(* SpecClean: snapshots and ingestion requests running concurrently        *)
(***************************************************************************)
CleanMaxApi == 3
CleanMaxClean == 2
CleanMaxFaults == 1

SpecClean ==
    /\ InitWith(Budget(CleanMaxApi, CleanMaxClean, 0, 0, 0, CleanMaxFaults), {"conn1"})
    /\ [][\/ ApiEventNext(ApiSlots, {ReqPlain})
          \/ CleanNext(CleanSlots)]_vars

(***************************************************************************)
(* SpecCompare: toggles on an archive made by ingestion and a snapshot     *)
(***************************************************************************)
CompareMaxApi == 2
CompareMaxClean == 1
CompareMaxToggle == 3
CompareMaxFaults == 1

SpecCompare ==
    /\ InitWith(Budget(CompareMaxApi, CompareMaxClean, 0, CompareMaxToggle, 0,
                        CompareMaxFaults), {"conn1"})
    /\ [][\/ ApiEventNext({1}, {ReqPlain})
          \/ CleanNext({1})
          \/ ToggleNext({1}, EventIds, {"plate", "color", "bogus"})]_vars

(***************************************************************************)
(* SpecDelete: an archive with files is made, marked and deleted           *)
(***************************************************************************)
DeleteMaxApi == 1
DeleteMaxClean == 1
DeleteMaxDel == 1
DeleteMaxToggle == 1
DeleteMaxFaults == 1

SpecDelete ==
    /\ InitWith(Budget(DeleteMaxApi, DeleteMaxClean, DeleteMaxDel, DeleteMaxToggle,
                        0, DeleteMaxFaults), {"conn1"})
    /\ [][\/ ApiEventNext({1}, {ReqTwoImages})
          \/ ApiImageNext({1})
          \/ CleanNext({1})
          \/ DelNext(DelSlots, {1})
          \/ ToggleNext({1}, {1}, {"plate"})]_vars

(***************************************************************************)
(* Spec: every operation, interleaved                                      *)
(***************************************************************************)
MaxApi == 2
MaxClean == 2
MaxDel == 1
MaxToggle == 1
MaxRename == 1
MaxFaults == 0

Init == InitWith(Budget(MaxApi, MaxClean, MaxDel, MaxToggle, MaxRename, MaxFaults),
                 {"conn1"})
Next ==
    \/ ApiEventNext({1}, {ReqPlain})
    \/ CleanNext(CleanSlots)
    \/ DelNext(DelSlots, ArchiveIds)
    \/ ToggleNext({1}, {1}, {"plate"})
    \/ RenameNext({1}, {<<" ">>, <<" ","n">>})
Spec == Init /\ [][Next]_vars

(***************************************************************************)
(* SpecUpload: two ingestion requests, with image parts and with skipped   *)
(* array elements                                                          *)
(***************************************************************************)
UploadMaxApi == 2
UploadMaxFaults == 1

SpecUpload ==
    /\ InitWith(Budget(UploadMaxApi, 0, 0, 0, 0, UploadMaxFaults), {"conn1"})
    /\ [][\/ ApiEventNext(ApiSlots, {ReqUpload, ReqSkips})
          \/ ApiImageNext(ApiSlots)]_vars

(***************************************************************************)
(* SpecReject: requests without payload bytes or with bytes that are not   *)
(* JSON, next to requests that are accepted                                *)
(***************************************************************************)
RejectMaxApi == 3
RejectMaxFaults == 1
RefusedRequests ==
    {ReqNoJson, ReqEmptyFields, ReqEmptyJsonPart, ReqEmptyBody,
     ReqBadBody, ReqBadJsonPart, ReqBadData}

SpecReject ==
    /\ InitWith(Budget(RejectMaxApi, 0, 0, 0, 0, RejectMaxFaults), {"conn1"})
    /\ [][\/ ApiEventNext(ApiSlots, RefusedRequests \cup {ReqJsonField})
          \/ ApiImageNext(ApiSlots)]_vars

(***************************************************************************)
(* SpecNormalize: ingestion of plain bodies that differ in their synonyms, *)
(* their confidence strings and the clock reading                          *)
(***************************************************************************)
NormalizeMaxApi == 2
NormalizeMaxFaults == 1

NormalizeRequests ==
    {ReqSynonyms(k, 1) : k \in 0..7}
    \cup {ReqSynonyms(0, t) : t \in {1, 2}}
    \cup {ReqConfidence(<<"0",".","9">>, <<"0",".","8">>, <<"7">>),
          ReqConfidence(<<"-","1",".","5">>, <<>>, <<>>),
          ReqConfidence(<<"x">>, <<"x">>, <<"1",".","2",".","3">>),
          ReqConfidence(<<".">>, <<>>, <<"x">>)}

SpecNormalize ==
    /\ InitWith(Budget(NormalizeMaxApi, 0, 0, 0, 0, NormalizeMaxFaults), {"conn1"})
    /\ [][ApiEventNext(ApiSlots, NormalizeRequests)]_vars

(***************************************************************************)
(* SpecGeotag: ingestion of plain bodies without a geotag and with geotag  *)
(* objects that hold both keys, one key or none                            *)
(***************************************************************************)
GeotagMaxApi == 3
GeotagMaxFaults == 1
Coordinates == {None, Some(0), Some(5)}
GeotagRequests ==
    {ReqGeotag(None)}
    \cup {ReqGeotag(Geotag(lat, lon)) : lat \in Coordinates, lon \in Coordinates}

SpecGeotag ==
    /\ InitWith(Budget(GeotagMaxApi, 0, 0, 0, 0, GeotagMaxFaults), {"conn1"})
    /\ [][ApiEventNext(ApiSlots, GeotagRequests)]_vars

(***************************************************************************)
(* SpecRename: archives are made from ingested events and renamed          *)
(***************************************************************************)
RenameMaxApi == 2
RenameMaxClean == 2
RenameMaxRename == 2
RenameMaxFaults == 1
BlankForms == {<<>>, <<" ">>, <<"\t"," ","\n">>}
RenameForms == BlankForms \cup {<<"n">>, <<" ","n","\t">>, <<"a"," ","b">>}

SpecRename ==
    /\ InitWith(Budget(RenameMaxApi, RenameMaxClean, 0, 0, RenameMaxRename,
                        RenameMaxFaults), {"conn1"})
    /\ [][\/ ApiEventNext({1}, {ReqPlain})
          \/ CleanNext({1})
          \/ RenameNext(ArchiveIds, RenameForms)]_vars

(***************************************************************************)
(* SpecTypes: ingestion of single images whose file names and declared     *)
(* types differ                                                            *)
(***************************************************************************)
TypesMaxApi == 2
TypesMaxFaults == 1
TypeRequests ==
    {ReqNamed(n) : n \in
    {<<"L","P","U","P",".","j","p","g">>,
     <<"x","P","l","a","t","e",".","p","n","g">>,
     <<"r","o","i",".","j","p","g">>,
     <<"V","e","h","i","c","l","e",".","j","p","e","g">>,
     <<"r","o","i","_","l","p","u","p",".","j","p","g">>,
     <<"p","l","a","t",".","j","p","g">>,
     DotDotName}}
    \cup {ReqTyped(t) : t \in {<<>>, <<"p">>, <<"R","O","I">>, DotDotType}}
    \cup {ReqSlashPlate, ReqSlashFormat}

SpecTypes ==
    /\ InitWith(Budget(TypesMaxApi, 0, 0, 0, 0, TypesMaxFaults), {"conn1"})
    /\ [][\/ ApiEventNext({1}, TypeRequests)
          \/ ApiImageNext({1})]_vars

(***************************************************************************)
(* SpecFrame: events with an image each are ingested one after another,    *)
(* swept into archives, marked, and archives are deleted                   *)
(***************************************************************************)
FrameMaxApi == 2
FrameMaxClean == 2
FrameMaxDel == 2
FrameMaxToggle == 1
FrameMaxFaults == 0

SpecFrame ==
    /\ InitWith(Budget(FrameMaxApi, FrameMaxClean, FrameMaxDel, FrameMaxToggle,
                        0, FrameMaxFaults), {"conn1"})
    /\ [][\/ ApiEventNext({1}, {ReqEmbedded})
          \/ ApiImageNext({1})
          \/ CleanNext({1})
          \/ DelNext(DelSlots, ArchiveIds)
          \/ ToggleNext({1}, EventIds, {"plate"})]_vars

(***************************************************************************)
(* Properties                                                              *)
(***************************************************************************)
\* one step changes the archive_id of an event only from NULL to an archive
\* id, and gives a new event an id no event had before
ArchiveIdOnlySet ==
    /\ \A e \in DOMAIN events \cap DOMAIN events' :
          events'[e].archive_id # events[e].archive_id =>
              events[e].archive_id = Null /\ events'[e].archive_id # Null
    /\ \A e \in DOMAIN events' \ DOMAIN events : e > sqlite_sequence["events"]

\* C1: across every interleaving of ingestion, snapshot, rename, toggle and
\* delete-archive steps, the archive_id of an event only ever changes from
\* NULL to an archive id: never back to NULL, never to another archive
C1_ArchiveIdOnlyNullToArchive == [][ArchiveIdOnlySet]_vars

\* an event sits in archive 1 after a second snapshot made archive 2 and
\* after a rename, a toggle and a delete have run
C1_Witness ==
    /\ \E e \in DOMAIN events : events[e].archive_id = 1
    /\ 2 \in DOMAIN archives
    /\ budget.rename = 0 /\ budget.toggle = 0 /\ budget.del = 0

\* C2: a snapshot that finds N > 0 current events, has no statement fail and
\* runs with no step of another request in between makes exactly one archive
\* row, with event_count = N; afterwards no event is current and each of
\* the N events has the new archive's id
C2_SnapshotArchivesAllCurrent ==
    \A p \in CleanSlots :
        LET c == clean[p]
            pre == solo.clean[p]
            those == CurrentEventIds(pre.events)
        IN  (c.pc = "done" /\ pre.on /\ ~c.failed /\ those # {}) =>
               /\ c.status = 303
               /\ c.archiveID \notin DOMAIN pre.archives
               /\ DOMAIN archives = DOMAIN pre.archives \cup {c.archiveID}
               /\ \A a \in DOMAIN pre.archives : archives[a] = pre.archives[a]
               /\ archives[c.archiveID].event_count = Cardinality(those)
               /\ CurrentEventIds(events) = {}
               /\ DOMAIN events = DOMAIN pre.events
               /\ \A e \in those : events[e].archive_id = c.archiveID
               /\ \A e \in DOMAIN events \ those :
                      events[e].archive_id = pre.events[e].archive_id

\* a second snapshot, after an earlier archive, has just archived two events
C2_Witness ==
    \E p \in CleanSlots :
        /\ clean[p].pc = "done" /\ solo.clean[p].on /\ ~clean[p].failed
        /\ Cardinality(CurrentEventIds(solo.clean[p].events)) = 2
        /\ DOMAIN solo.clean[p].archives # {}
        /\ clean[p].archiveID \in DOMAIN archives

\* the step in which a snapshot counts, when no event is current, ends the
\* snapshot with a redirect and changes no row
SnapshotOfNothing ==
    \A p \in CleanSlots :
        (clean[p].pc = "idle" /\ clean'[p].pc # "idle" /\ CurrentEventIds(events) = {}) =>
            /\ clean'[p].pc = "done"
            /\ clean'[p].status = 303
            /\ clean'[p].archiveID = 0
            /\ UNCHANGED <<events, images, archives, compare_results, sqlite_sequence>>

\* C3: a snapshot that runs while no event is current makes no archive row
\* and leaves every event, image, archive and compare-result row as it was
C3_SnapshotOfNothingIsNoOp == [][SnapshotOfNothing]_vars

\* a snapshot found every event archived already and ended without a row
C3_Witness ==
    \E p \in CleanSlots :
        /\ clean[p].pc = "done" /\ clean[p].archiveID = 0 /\ ~clean[p].failed
        /\ solo.clean[p].on
        /\ DOMAIN events # {} /\ CurrentEventIds(events) = {}
        /\ DOMAIN archives # {}

\* C4: the event_count of the archive a snapshot made equals the number of
\* events that this snapshot's bulk update moved into the archive, also when
\* ingestion or another snapshot runs between its count and its bulk update
C4_EventCountIsNumberArchived ==
    \A p \in CleanSlots :
        (/\ clean[p].pc = "done" /\ clean[p].status = 303 /\ ~clean[p].failed
         /\ clean[p].archiveID \in DOMAIN archives) =>
            archives[clean[p].archiveID].event_count = clean[p].swept

\* the paths of the files the rows of the events in evs name
FilesNamedBy(ev, im, evs) ==
    {Path("json", ev[e].json_filename[1]) :
        e \in {x \in evs : ev[x].json_filename # None}}
    \cup {Path("images", im[i].disk_filename[1]) :
        i \in {x \in DOMAIN im : im[x].event_id \in evs /\ im[x].disk_filename # None}}

\* C5: after a delete of an archive that had no statement and no removal
\* fail and ran with no step of another request in between, no event of the
\* archive and no image of such an event is left, the archive row is gone,
\* looking up any of its events finds nothing, and no file named by a
\* deleted row is on disk; a file that was missing already does not change
\* the answer, a redirect
C5_DeleteRemovesRowsAndFiles ==
    \A p \in DelSlots :
        LET d == del[p]
            pre == solo.del[p]
            evs == ArchivedEventIds(pre.events, d.id)
        IN  (d.pc = "done" /\ pre.on /\ ~d.failed) =>
               /\ d.status = 303
               /\ ArchivedEventIds(events, d.id) = {}
               /\ \A i \in DOMAIN images : images[i].event_id \notin evs
               /\ d.id \notin DOMAIN archives
               /\ \A e \in evs : GetEventByID(events, e) = None
               /\ FilesNamedBy(pre.events, pre.images, evs) \cap disk = {}

\* a delete ended after it removed an archive whose event had a payload
\* file and two image files, and one of its removals met a missing file
C5_Witness ==
    \E p \in DelSlots :
        LET pre == solo.del[p]
            evs == ArchivedEventIds(pre.events, del[p].id)
        IN  /\ del[p].pc = "done" /\ pre.on /\ ~del[p].failed
            /\ del[p].missed
            /\ del[p].id \in DOMAIN pre.archives
            /\ Cardinality(FilesNamedBy(pre.events, pre.images, evs)) = 3
            /\ FilesNamedBy(pre.events, pre.images, evs) \subseteq pre.disk

\* C6: after a delete of an existing archive has ended, with no statement
\* failed, no compare-result row with that archive_id is left
C6_DeleteRemovesCompareResults ==
    \A p \in DelSlots :
        (/\ del[p].pc = "done" /\ ~del[p].failed /\ solo.del[p].on
         /\ del[p].id \in DOMAIN solo.del[p].archives) =>
            ~ \E r \in compare_results : r.archive_id = del[p].id

\* C7: there is never more than one compare-result row for a key (archive_id,
\* event_id, field), and the row of a key holds the value of the latest
\* toggle request on that key that was answered 200
C7_OneRowPerKeyLatestValue ==
    /\ \A r1, r2 \in compare_results :
          (r1.archive_id = r2.archive_id /\ r1.event_id = r2.event_id
           /\ r1.field = r2.field) => r1 = r2
    /\ \A k \in DOMAIN toggle.latest :
          \E r \in compare_results :
              /\ r.archive_id = k[1] /\ r.event_id = k[2] /\ r.field = k[3]
              /\ r.is_incorrect = toggle.latest[k].value

\* a key was set twice or more while a row of another key exists
C7_Witness ==
    /\ \E k \in DOMAIN toggle.latest : toggle.latest[k].calls >= 2
    /\ Cardinality(compare_results) = 2

\* a toggle request whose field is not one of plate, maker, model, color is
\* answered 400, runs no statement (it can meet no fault) and changes no row
RejectsOtherFields ==
    (budget'.toggle # budget.toggle /\ toggle'.field \notin {"plate", "maker", "model", "color"}) =>
        /\ toggle'.status = 400
        /\ budget'.faults = budget.faults
        /\ UNCHANGED <<compare_results, events, images, archives, sqlite_sequence,
                       lastRowid>>

\* C8: a toggle with a field outside {plate, maker, model, color} gets a
\* client error before any storage statement runs, and every compare-result
\* row stays as it was
C8_InvalidFieldRejected == [][RejectsOtherFields]_vars

\* the field "bogus" was just refused while rows exist
C8_Witness ==
    /\ toggle.status = 400 /\ toggle.field = "bogus"
    /\ compare_results # {}

\* C9: every image row with a disk_filename has one that begins with the
\* row's own id and "_", and the id a request reads after its insert is the
\* id of the row it inserted, under every interleaving of ingestion requests
C9_DiskNameHasOwnId ==
    /\ \A i \in DOMAIN images :
          images[i].disk_filename # None =>
              HasPrefix(images[i].disk_filename[1], Itoa(i) \o <<"_">>)
    /\ \A p \in ApiSlots :
          api[p].pc \in {"write_image", "update_image"} => api[p].imgID = api[p].rowID

\* C10: no path is written twice, whatever the interleaving of ingestion
\* requests
C10_WrittenPathsUnique == \A path \in DOMAIN writes : writes[path] <= 1

\* the image rows of an event
ImagesOf(im, eventID) == {i \in DOMAIN im : im[i].event_id = eventID}

\* C11: a multipart request with one .json part and two image parts (and a
\* part that is neither), none of whose inserts fails, is answered 200 with
\* one event row of its own and exactly two image rows, one per image part,
\* each with the event's id
C11_OneEventAndKImages ==
    /\ Cardinality(DOMAIN events) <= UploadMaxApi - budget.api
    /\ \A p \in ApiSlots :
          LET r == api[p]
          IN  (r.pc = "done" /\ r.status = 200 /\ r.req = ReqUpload /\ r.insertErrs = 0) =>
                 /\ r.eventID \in DOMAIN events
                 /\ \A q \in ApiSlots \ {p} : api[q].eventID # r.eventID
                 /\ Cardinality(ImagesOf(images, r.eventID)) = 2
                 /\ ImagesOf(images, r.eventID) = r.imageRows
                 /\ {images[i].filename : i \in r.imageRows} =
                        {Some(<<"a",".","j","p","g">>), Some(<<"b",".","P","N","G">>)}

\* the request with two image parts is answered while another request is
\* in the middle of its own work
C11_Witness ==
    \E p \in ApiSlots :
        /\ api[p].pc = "done" /\ api[p].status = 200 /\ api[p].req = ReqUpload
        /\ api[p].insertErrs = 0
        /\ \E q \in ApiSlots \ {p} : api[q].pc \notin {"idle", "done"} /\ api[q].eventID # 0

\* a step in which InsertEvent stores no row ends the request with 500 and
\* changes no table and no file
FailedInsertEndsRequest ==
    \A p \in ApiSlots :
        (api[p].pc = "insert_event" /\ api'[p] # api[p] /\ events' = events) =>
            /\ api'[p].pc = "done" /\ api'[p].status = 500
            /\ UNCHANGED <<images, sqlite_sequence, disk, writes>>

\* C12: when the event insert of an ingestion fails the request is answered
\* with an error, and it has made no event row, no image row and no file
C12_FailedEventInsertLeavesNothing ==
    /\ [][FailedInsertEndsRequest]_vars
    /\ [](\A p \in ApiSlots :
            (api[p].pc = "done" /\ api[p].status = 500) =>
                /\ api[p].eventID = 0
                /\ api[p].imageRows = {}
                /\ api[p].wrote = {}
                /\ ~api[p].jsonUnwritten /\ api[p].unwritten = {})

\* an ingestion was answered 500 while the other request's rows and files
\* are there
C12_Witness ==
    \E p \in ApiSlots :
        /\ api[p].pc = "done" /\ api[p].status = 500
        /\ api[p].req = ReqUpload
        /\ DOMAIN events # {} /\ DOMAIN images # {} /\ disk # {}

\* the paths a step writes to
WrittenNow ==
    {path \in DOMAIN writes' : path \notin DOMAIN writes \/ writes'[path] > writes[path]}

\* one step of a request: a file write or an image insert comes after the
\* event insert; an image file is written after the insert of its row, under
\* a name made from the id read; a file name is stored in a row only after
\* this request wrote that file
TwoPhaseStep ==
    \A p \in ApiSlots :
        api'[p] # api[p] =>
            /\ (writes' # writes \/ DOMAIN images' # DOMAIN images) =>
                   api[p].eventID \in DOMAIN events
            /\ \A path \in WrittenNow :
                   path.dir = "images" =>
                       /\ api[p].rowID \in DOMAIN images
                       /\ images[api[p].rowID].event_id = api[p].eventID
                       /\ api[p].pc = "write_image"
                       /\ HasPrefix(path.name, Itoa(api[p].imgID) \o <<"_">>)
            /\ \A i \in DOMAIN images :
                   images'[i].disk_filename # images[i].disk_filename =>
                       Path("images", images'[i].disk_filename[1]) \in api[p].wrote
            /\ \A e \in DOMAIN events :
                   events'[e].json_filename # events[e].json_filename =>
                       /\ e = api[p].eventID
                       /\ Path("json", events'[e].json_filename[1]) \in api[p].wrote

\* C13: in every ingestion the event insert comes before any file write and
\* any image insert; for each image the row insert comes before the file
\* write, and the disk_filename is stored only after that file was written
C13_TwoPhaseOrder == [][TwoPhaseStep]_vars

\* both image rows of a request carry the names of files it wrote
C13_Witness ==
    \E p \in ApiSlots :
        /\ api[p].pc = "done" /\ api[p].req = ReqUpload
        /\ Cardinality(api[p].wrote) = 3
        /\ \A i \in api[p].imageRows : images[i].disk_filename # None
        /\ Cardinality(api[p].imageRows) = 2

\* a stored file name is the name of a file that was written
StoredNamesWereWritten ==
    /\ \A e \in DOMAIN events :
          events[e].json_filename # None =>
              Path("json", events[e].json_filename[1]) \in disk
    /\ \A i \in DOMAIN images :
          images[i].disk_filename # None =>
              Path("images", images[i].disk_filename[1]) \in disk

\* a request whose write of the payload file or of an image file failed is
\* answered 200
FailedWriteStillSucceeds ==
    \A p \in ApiSlots :
        (api[p].pc = "done" /\ (api[p].jsonUnwritten \/ api[p].unwritten # {})) =>
            api[p].status = 200

\* the event row of a request whose payload write failed has no json_filename
FailedJsonWriteKeepsNull ==
    \A p \in ApiSlots :
        (api[p].jsonUnwritten /\ api[p].eventID \in DOMAIN events) =>
            events[api[p].eventID].json_filename = None

\* the image row of an image whose file write failed has no disk_filename
FailedImageWriteKeepsNull ==
    \A p \in ApiSlots :
        \A i \in api[p].unwritten :
            i \in DOMAIN images => images[i].disk_filename = None

\* C14: a failed write of the payload file or of an image file leaves the
\* request successful and the row's json_filename / disk_filename NULL, and
\* every stored json_filename or disk_filename names a file that was written
C14_FailedWriteKeepsNull ==
    /\ StoredNamesWereWritten
    /\ FailedWriteStillSucceeds
    /\ FailedJsonWriteKeepsNull
    /\ FailedImageWriteKeepsNull

\* the images a request has to store: its image parts and the ImageArray
\* elements that decode
ImagesToStore(r) ==
    Len(r.uploadedImages) +
    Cardinality({i \in DOMAIN r.ImageArray :
                    /\ r.ImageArray[i].BinaryImage # ""
                    /\ Base64Valid(r.ImageArray[i].BinaryImage)})

\* the count in a 200 answer is the number of image rows of the new event
CountIsRowsOfEvent ==
    \A p \in ApiSlots :
        (api[p].pc = "done" /\ api[p].status = 200) =>
            api[p].imageCount = Cardinality(ImagesOf(images, api[p].eventID))

\* a failed image insert costs one row and nothing else: the request goes on
\* to the other images and is answered 200
FailedImageSkipsOnlyItself ==
    \A p \in ApiSlots :
        (api[p].pc = "done" /\ api[p].eventID # 0) =>
            /\ api[p].status = 200
            /\ Cardinality(api[p].imageRows) + api[p].insertErrs = ImagesToStore(api[p])

\* C15: the image count of a successful ingestion is the number of image
\* rows the new event has when the answer is sent, and an image whose insert
\* or id read fails is the only one left out
C15_CountIsRowsOfEvent == CountIsRowsOfEvent /\ FailedImageSkipsOnlyItself

\* a step of the request with the three-element ImageArray that adds an
\* image row or writes a file under images/ works on the third element, the
\* one that decodes
OnlyDecodedElementStored ==
    \A p \in ApiSlots :
        (/\ api'[p] # api[p]
         /\ api[p].req = ReqSkips
         /\ \/ DOMAIN images' # DOMAIN images
            \/ \E path \in WrittenNow : path.dir = "images") =>
            /\ api[p].loop = "embedded"
            /\ api[p].i = 3
            /\ api[p].ImageArray[api[p].i].BinaryImage = "b64"

\* the answer to that request: one row at most, the third element's, which
\* is there and counted unless its own insert or id read failed
SkippedElementsNotCounted ==
    \A p \in ApiSlots :
        LET r == api[p]
        IN  (r.pc = "done" /\ r.req = ReqSkips /\ r.eventID # 0) =>
                /\ r.status = 200
                /\ Cardinality(r.imageRows) = 1 - r.insertErrs
                /\ r.imageCount = 1 - r.insertErrs - r.idErrs
                /\ \A i \in r.imageRows :
                       images[i].filename =
                           Some(<<"e","m","b","e","d","d","e","d","_","2",".","j","p","g">>)
                /\ Cardinality({path \in r.wrote : path.dir = "images"}) <= 1

\* C16: an ImageArray element whose BinaryImage is empty or is not base64
\* gets no image row and no file and is not counted, and the elements after
\* it are stored all the same
C16_SkippedElementsStoreNothing ==
    /\ [][OnlyDecodedElementStored]_vars
    /\ []SkippedElementsNotCounted

\* the request with an empty and an undecodable element is answered with a
\* count of one, its third element stored as a row and as a file
C16_Witness ==
    \E p \in ApiSlots :
        /\ api[p].pc = "done" /\ api[p].status = 200 /\ api[p].req = ReqSkips
        /\ api[p].imageCount = 1
        /\ Cardinality(api[p].imageRows) = 1
        /\ \E path \in api[p].wrote : path.dir = "images"

\* the step that receives a request without payload bytes or with bytes
\* that are not JSON answers it 400 and changes no table and no file
RefusedOnArrival ==
    \A p \in ApiSlots :
        (api[p].pc = "idle" /\ api'[p].pc # "idle" /\ api'[p].req \in RefusedRequests) =>
            /\ api'[p].pc = "done" /\ api'[p].status = 400
            /\ UNCHANGED <<db, disk, writes>>

\* such a request is never past its answer, and it has no event, no image
\* row and no file
RefusedHasNothing ==
    \A p \in ApiSlots :
        (api[p].pc # "idle" /\ api[p].req \in RefusedRequests) =>
            /\ api[p].pc = "done" /\ api[p].status = 400
            /\ api[p].eventID = 0
            /\ api[p].imageRows = {}
            /\ api[p].wrote = {}
            /\ ~api[p].jsonUnwritten /\ api[p].unwritten = {}

\* C17: an ingestion whose payload has no bytes (no .json part and no json
\* or data field, an empty .json part, an empty body) or is not JSON is
\* answered with a client error and makes no event row, no image row and
\* no file
C17_NoPayloadIsClientError ==
    /\ [][RefusedOnArrival]_vars
    /\ []RefusedHasNothing

\* a request whose .json part is not JSON, sent with an image part, has its
\* 400 while another request's event, image and file are stored
C17_Witness ==
    \E p \in ApiSlots :
        /\ api[p].pc = "done" /\ api[p].status = 400 /\ api[p].req = ReqBadJsonPart
        /\ DOMAIN events # {} /\ DOMAIN images # {} /\ disk # {}

\* the requests that have their event row, with the document they sent
Stored ==
    {p \in ApiSlots : api[p].eventID \in DOMAIN events /\ api[p].req.body.kind = "json"}

\* C18: the stored car_id is carID when that is not empty, else carid when
\* that is not empty, else carId, whatever the later synonyms hold; the
\* stored plate is plateUTF8 before plateText, the stored car state is
\* carState before carstate
C18_FirstNonEmptySynonymWins ==
    \A p \in Stored :
        LET b == api[p].req.body
            e == events[api[p].eventID]
        IN  /\ b.CarID # <<>> => e.car_id = b.CarID
            /\ (b.CarID = <<>> /\ b.CarId # <<>>) => e.car_id = b.CarId
            /\ (b.CarID = <<>> /\ b.CarId = <<>> /\ b.CarId2 # <<>>) => e.car_id = b.CarId2
            /\ b.PlateUTF8 # <<>> => e.plate_utf8 = Some(b.PlateUTF8)
            /\ (b.PlateUTF8 = <<>> /\ b.PlateText # <<>>) => e.plate_utf8 = Some(b.PlateText)
            /\ b.CarState # <<>> => e.car_state = Some(b.CarState)
            /\ (b.CarState = <<>> /\ b.CarState2 # <<>>) => e.car_state = Some(b.CarState2)

\* two events are stored at once, one from a document with every synonym
\* filled and one from a document with only the last car id and the last
\* plate filled
C18_Witness ==
    \E p, q \in Stored :
        /\ api[p].req = ReqSynonyms(7, 1)
        /\ api[q].req = ReqSynonyms(4, 1)
        /\ events[api[p].eventID].car_id = <<"c","1">>
        /\ events[api[q].eventID].car_id = <<"c","3">>
        /\ events[api[q].eventID].plate_utf8 = Some(<<"P","2">>)

\* C19: the car_id made for a document without a car id is not empty and
\* differs from the one made in every other ingestion, also one handled at
\* the same time under the same clock reading
C19_SynthesizedCarIdDistinct ==
    \A p \in Stored :
        LET b == api[p].req.body
        IN  (b.CarID = <<>> /\ b.CarId = <<>> /\ b.CarId2 = <<>>) =>
                /\ events[api[p].eventID].car_id # <<>>
                /\ \A q \in Stored \ {p} :
                       (/\ api[q].req.body.CarID = <<>>
                        /\ api[q].req.body.CarId = <<>>
                        /\ api[q].req.body.CarId2 = <<>>) =>
                           events[api[q].eventID].car_id # events[api[p].eventID].car_id

\* the confidence texts of a run that are not decimal numbers
MalformedConfidences == {<<"x">>, <<".">>, <<"1",".","2",".","3">>}

\* a plateConfidence that is not a number is stored as NULL
MalformedPlateConfidenceAbsent ==
    \A p \in Stored :
        api[p].req.body.PlateConfidence \in MalformedConfidences =>
            events[api[p].eventID].plate_confidence = None

\* a confidenceMMR or confidenceColor that is not a number is stored as NULL
MalformedVehicleConfidenceAbsent ==
    \A p \in Stored :
        LET b == api[p].req.body
            e == events[api[p].eventID]
        IN  b.VehicleInfo # None =>
                /\ b.VehicleInfo[1].ConfidenceMMR \in MalformedConfidences =>
                       e.confidence_mmr = None
                /\ b.VehicleInfo[1].ConfidenceColor \in MalformedConfidences =>
                       e.confidence_color = None

\* a document with a confidence that is not a number is not refused
MalformedConfidenceAccepted ==
    \A p \in ApiSlots :
        LET b == api[p].req.body
        IN  (/\ api[p].pc = "done"
             /\ b.kind = "json"
             /\ \/ b.PlateConfidence \in MalformedConfidences
                \/ /\ b.VehicleInfo # None
                   /\ \/ b.VehicleInfo[1].ConfidenceMMR \in MalformedConfidences
                      \/ b.VehicleInfo[1].ConfidenceColor \in MalformedConfidences) =>
                api[p].status # 400

\* C20: each of plateConfidence, confidenceMMR and confidenceColor that is
\* not a decimal number is stored as NULL, neither as zero nor as the text,
\* and the ingestion is not refused for it
C20_MalformedConfidenceAbsent ==
    /\ MalformedPlateConfidenceAbsent
    /\ MalformedVehicleConfidenceAbsent
    /\ MalformedConfidenceAccepted

\* C21: every event row has geotag_lat and geotag_lon both NULL or both
\* set, and the row of a document that has a geotag object has both set
C21_GeotagPairTogether ==
    /\ \A e \in DOMAIN events :
          (events[e].geotag_lat = None) <=> (events[e].geotag_lon = None)
    /\ \A p \in Stored :
          api[p].req.body.Geotag # None =>
              /\ events[api[p].eventID].geotag_lat # None
              /\ events[api[p].eventID].geotag_lon # None

\* events of a document with a geotag that has only its lat key, of one
\* with both keys and of one without geotag are stored side by side
C21_Witness ==
    /\ \E p \in Stored : api[p].req = ReqGeotag(Geotag(Some(5), None))
    /\ \E e \in DOMAIN events :
          events[e].geotag_lat = Some(5) /\ events[e].geotag_lon = Some(5)
    /\ \E e \in DOMAIN events :
          events[e].geotag_lat = None /\ events[e].geotag_lon = None

\* C22: the stored pair is set only when the document's geotag has both a
\* lat and a lon; a geotag without one of them gives a NULL pair, not a
\* pair with a coordinate filled in
C22_GeotagPairOnlyIfBothSent ==
    \A p \in Stored :
        LET g == api[p].req.body.Geotag
            e == events[api[p].eventID]
        IN  (e.geotag_lat # None \/ e.geotag_lon # None) =>
                /\ g # None
                /\ g[1].lat # None
                /\ g[1].lon # None

\* a rename request is handled in this step
RenameHandled == budget'.rename # budget.rename

\* the name a form value stands for, for the values of a run
NameMeant(form) ==
    IF form = <<" ","n","\t">> THEN <<"n">> ELSE form

\* a rename with an empty or blank name is answered 400 and changes no row;
\* a rename that is accepted changes the name of the archive with that id,
\* if there is one, and nothing else: no event_count, no other archive, no
\* event, image or mark
RenameStep ==
    RenameHandled =>
        /\ rename'.form \in BlankForms =>
               /\ rename'.status = 400
               /\ UNCHANGED <<db, disk>>
        /\ rename'.form \notin BlankForms => rename'.status \in {303, 500}
        /\ rename'.status # 303 => UNCHANGED <<db, disk>>
        /\ rename'.status = 303 =>
               /\ UNCHANGED <<events, images, compare_results, disk>>
               /\ DOMAIN archives' = DOMAIN archives
               /\ \A a \in DOMAIN archives :
                      /\ archives'[a].event_count = archives[a].event_count
                      /\ a # rename'.id => archives'[a] = archives[a]
                      /\ a = rename'.id =>
                             archives'[a].name = Some(NameMeant(rename'.form))

\* C23: a rename with an empty or whitespace-only name is a client error
\* that changes no row; an accepted rename changes the archive's name only,
\* never its event_count
C23_RenameOnlyChangesName == [][RenameStep]_vars

\* an archive of one event carries the new name and its count of one, after
\* a blank rename was refused
C23_Witness ==
    /\ budget.rename = 0
    /\ rename.status = 400 /\ rename.form = <<"\t"," ","\n">>
    /\ \E a \in DOMAIN archives :
          archives[a].name = Some(<<"n">>) /\ archives[a].event_count = 1

\* the type tag each request's image is to get
TypeCases ==
    {[req |-> ReqNamed(<<"L","P","U","P",".","j","p","g">>), type |-> <<"p","l","a","t","e">>],
     [req |-> ReqNamed(<<"x","P","l","a","t","e",".","p","n","g">>),
      type |-> <<"p","l","a","t","e">>],
     [req |-> ReqNamed(<<"r","o","i",".","j","p","g">>),
      type |-> <<"v","e","h","i","c","l","e">>],
     [req |-> ReqNamed(<<"V","e","h","i","c","l","e",".","j","p","e","g">>),
      type |-> <<"v","e","h","i","c","l","e">>],
     [req |-> ReqNamed(<<"r","o","i","_","l","p","u","p",".","j","p","g">>),
      type |-> <<"p","l","a","t","e">>],
     [req |-> ReqNamed(<<"p","l","a","t",".","j","p","g">>),
      type |-> <<"u","p","l","o","a","d","e","d">>],
     [req |-> ReqTyped(<<>>), type |-> <<"e","m","b","e","d","d","e","d">>],
     [req |-> ReqTyped(<<"p">>), type |-> <<"p">>],
     [req |-> ReqTyped(<<"R","O","I">>), type |-> <<"R","O","I">>],
     [req |-> ReqNamed(DotDotName), type |-> <<"u","p","l","o","a","d","e","d">>],
     [req |-> ReqTyped(DotDotType), type |-> DotDotType],
     [req |-> ReqSlashPlate, type |-> <<"e","m","b","e","d","d","e","d">>],
     [req |-> ReqSlashFormat, type |-> <<"e","m","b","e","d","d","e","d">>]}

\* C24: an uploaded image is tagged plate when its lowercased name holds
\* lpup or plate, else vehicle when it holds roi or vehicle, else uploaded,
\* plate winning when both occur; an embedded image is tagged with its
\* declared ImageType as it is, embedded when that is blank
C24_ImageTypeTag ==
    \A p \in ApiSlots :
        /\ api[p].pc # "idle" => \E c \in TypeCases : c.req = api[p].req
        /\ \A c \in TypeCases :
              api[p].req = c.req =>
                  \A i \in api[p].imageRows : images[i].image_type = c.type

\* the image named roi_lpup.jpg is stored as a plate next to an earlier
\* image stored under its declared type
C24_Witness ==
    \E p \in ApiSlots :
        /\ api[p].req = ReqNamed(<<"r","o","i","_","l","p","u","p",".","j","p","g">>)
        /\ api[p].imageRows = {2}
        /\ images[2].image_type = <<"p","l","a","t","e">>
        /\ images[1].image_type = <<"R","O","I">>

\* a file name made of a row id, "_" and characters of [a-zA-Z0-9._-] only
SafeDiskName(name) ==
    /\ \E n \in 0..9 : HasPrefix(name, Itoa(n) \o <<"_">>)
    /\ \A k \in DOMAIN name : name[k] \in SafeChars

\* the paths written for a file name or a plate text of the client are in
\* json/ or images/ under such a name
FilenameAndPlateSafe ==
    \A p \in ApiSlots :
        api[p].req \in {ReqNamed(DotDotName), ReqSlashPlate} =>
            \A path \in api[p].wrote :
                path.dir \in {"json", "images"} /\ SafeDiskName(path.name)

\* C25: every file ingestion writes is directly in json/ or in images/,
\* named by a row id, "_" and a name of characters in [a-zA-Z0-9._-],
\* whatever file name, plate text, ImageType and ImageFormat the client sent
C25_WrittenNamesSafe ==
    \A path \in DOMAIN writes :
        path.dir \in {"json", "images"} /\ SafeDiskName(path.name)

\* the events assigned to an archive
EventsOf(ev, archiveID) == {e \in DOMAIN ev : ev[e].archive_id = archiveID}

\* a snapshot none of whose statements failed leaves no archive without
\* events, whatever ran between its statements
NoEmptyArchiveWhenInterleaved ==
    \A p \in CleanSlots :
        (/\ clean[p].pc = "done" /\ ~clean[p].failed
         /\ clean[p].archiveID \in DOMAIN archives) =>
            EventsOf(events, clean[p].archiveID) # {}

\* C26: at the end of a snapshot the archive row it made has events
\* assigned to it, under every interleaving of snapshots and ingestion and
\* also when the bulk update failed after the archive row was inserted
C26_NoEmptyArchive ==
    \A p \in CleanSlots :
        (clean[p].pc = "done" /\ clean[p].archiveID \in DOMAIN archives) =>
            EventsOf(events, clean[p].archiveID) # {}

\* the ingestions that were still at work when the delete of their event's
\* archive began, now that they are answered and the delete has ended with
\* the event gone
IngestedIntoDeleted ==
    {p \in ApiSlots :
        /\ api[p].pc = "done" /\ api[p].eventID # 0
        /\ api[p].eventID \notin DOMAIN events
        /\ \E d \in DelSlots : del[d].pc = "done" /\ p \in del[d].racing}

\* no image row is left for such an event when foreign keys are enforced
\* and no statement failed
NoOrphanImageRowsEnforced ==
    \A p \in IngestedIntoDeleted :
        (foreignKeys /\ budget.faults = DeleteMaxFaults) =>
            ImagesOf(images, api[p].eventID) = {}

\* no image row is left for such an event when foreign keys are not
\* enforced and no statement failed
NoOrphanImageRowsUnenforced ==
    \A p \in IngestedIntoDeleted :
        (~foreignKeys /\ budget.faults = DeleteMaxFaults) =>
            ImagesOf(images, api[p].eventID) = {}

\* no file is left for such an event when foreign keys are enforced and
\* no statement failed
NoOrphanFilesEnforced ==
    \A p \in IngestedIntoDeleted :
        (foreignKeys /\ budget.faults = DeleteMaxFaults) => api[p].wrote \cap disk = {}

\* C27: when an event is swept into an archive and the archive is deleted
\* while the event's ingestion is still inserting images and writing files,
\* then after both have ended no image row names the deleted event and no
\* file written for it is on disk
C27_NoOrphansAfterDelete ==
    \A p \in IngestedIntoDeleted :
        /\ ImagesOf(images, api[p].eventID) = {}
        /\ api[p].wrote \cap disk = {}

\* with foreign keys enforced every mark names an archive and an event
\* that exist
MarksNameExistingRows ==
    foreignKeys =>
        \A r \in compare_results :
            r.archive_id \in DOMAIN archives /\ r.event_id \in DOMAIN events

\* with foreign keys enforced the event of every mark is in the mark's
\* archive
MarksNameEventOfArchiveEnforced ==
    foreignKeys =>
        \A r \in compare_results :
            r.event_id \in DOMAIN events =>
                events[r.event_id].archive_id = r.archive_id

\* C28: every compare_results row names an archive that exists and an
\* event that exists and is in that archive; a mark for a missing archive,
\* a missing event or an event outside the archive makes no row
C28_MarksNameEventOfArchive ==
    \A r \in compare_results :
        /\ r.archive_id \in DOMAIN archives
        /\ r.event_id \in DOMAIN events
        /\ events[r.event_id].archive_id = r.archive_id

\* the events that are not in the archive: the current ones and those of
\* other archives
EventsOutside(ev, archiveID) == {e \in DOMAIN ev : ev[e].archive_id # archiveID}

\* a delete that ran on its own left the events outside the archive as
\* they were before it, with their images, their marks and their files
DeleteKeepsOtherEvents ==
    \A p \in DelSlots :
        LET d == del[p]
            pre == solo.del[p]
            others == EventsOutside(pre.events, d.id)
        IN  (d.pc = "done" /\ pre.on) =>
               /\ \A e \in others : e \in DOMAIN events /\ events[e] = pre.events[e]
               /\ \A i \in DOMAIN pre.images :
                      pre.images[i].event_id \in others =>
                          i \in DOMAIN images /\ images[i] = pre.images[i]
               /\ FilesNamedBy(pre.events, pre.images, others) \cap pre.disk \subseteq disk

\* ... and their marks
DeleteKeepsOtherMarks ==
    \A p \in DelSlots :
        LET pre == solo.del[p]
        IN  (del[p].pc = "done" /\ pre.on) =>
               \A r \in pre.compare_results :
                   r.event_id \in EventsOutside(pre.events, del[p].id) =>
                       r \in compare_results

\* ... and every other archive row
DeleteKeepsOtherArchives ==
    \A p \in DelSlots :
        LET pre == solo.del[p]
        IN  (del[p].pc = "done" /\ pre.on) =>
               \A a \in DOMAIN pre.archives \ {del[p].id} :
                   a \in DOMAIN archives /\ archives[a] = pre.archives[a]

\* a delete of an id that names no archive changed nothing
DeleteOfNoArchiveChangesNothing ==
    \A p \in DelSlots :
        LET pre == solo.del[p]
        IN  (del[p].pc = "done" /\ pre.on /\ del[p].id \notin DOMAIN pre.archives) =>
               /\ events = pre.events /\ images = pre.images
               /\ archives = pre.archives
               /\ compare_results = pre.compare_results
               /\ disk = pre.disk

\* C29: a delete leaves every current event and every event of another
\* archive as it was, with their images, marks and files, and every other
\* archive row; a delete of an id that names no archive changes nothing
C29_DeleteFrame ==
    /\ DeleteKeepsOtherEvents
    /\ DeleteKeepsOtherMarks
    /\ DeleteKeepsOtherArchives
    /\ DeleteOfNoArchiveChangesNothing

\* C30: in every state, those between the statements of a delete and those
\* after a failed delete statement included, every image row names an
\* event that exists and every archived event names an archive that exists
C30_ReferencesExist ==
    /\ \A i \in DOMAIN images : images[i].event_id \in DOMAIN events
    /\ \A e \in DOMAIN events :
          events[e].archive_id # Null => events[e].archive_id \in DOMAIN archives

\* the same with foreign keys enforced
ReferencesExistEnforced == foreignKeys => C30_ReferencesExist

====
